---- MODULE Spec2Model ----
(***************************************************************************)
(* A model of moonblokz-probe: the bounded log buffer and the telemetry    *)
(* sync loop (types.rs, telemetry_sync.rs, log_collector.rs,               *)
(* usb_collector.rs), the serial port manager (usb_manager.rs), the update *)
(* manager (update_manager.rs, node_update.rs, probe_update.rs) and the    *)
(* command dispatchers (commands.rs, command_executor.rs).                 *)
(*                                                                         *)
(* The subsystems share no state that the properties below relate, so each *)
(* has a specification of its own (SpecBuf, SpecUsb, ...) over the same    *)
(* variables; a specification leaves the other subsystems' variables       *)
(* untouched.                                                              *)
(***************************************************************************)
EXTENDS Integers, Sequences, FiniteSets, TLC

VARIABLES
    \* ---- log buffer and telemetry sync loop ----
    collector,      \* the collector the build runs: "log_collector" | "usb_collector"
    max_size,       \* LogBuffer.max_size (config.buffer_size)
    entries,        \* LogBuffer.entries, oldest first
    buffer,         \* usb_collector.rs: the Vec<LogEntry> buffer, oldest first
    collectorPanic, \* usb_collector.rs: the collector task panicked
    syncPc,         \* telemetry_sync.rs: "sleep" | "post" (awaiting the response)
                    \* | "dispatch" (executing the commands of the response)
    commands,       \* sync_telemetry's local `commands` not yet executed
    logs,           \* sync_telemetry's local `logs` (the drained snapshot)
    nextLine,       \* the next line the serial link delivers (entries are numbered)
    cycles,         \* upload cycles started so far
    pushed,         \* history: every entry the collector pushed into `entries`
    vecPushed,      \* history: every entry usb_collector pushed into `buffer`
    drains,         \* history: number of drains of `entries`
    appended,       \* history: entries pushed since the last snapshot (A)
    last,           \* history: the last finished upload cycle
    decision,       \* history: the last line a collector decided on
    \* ---- serial port manager (usb_manager.rs) ----
    usbPc,          \* "connect" | "connected" | "writing" (in write_all) |
                    \* "flushing" (in flush) | "backoff" (in the reconnect sleep)
    backoff_ms,     \* UsbManager::run's backoff_ms
    sleepMs,        \* the duration of the current reconnect sleep (0 when not sleeping)
    cmdQueue,       \* the command channel (command_rx), oldest first
    command,        \* the command received from the channel and being written
                    \* (<<>> when none)
    msgs,           \* history: every UsbMessage sent on message_tx, in order
    wire,           \* history: every command written and flushed to the port
    attempts,       \* history: open attempts so far
    openFails,      \* history: consecutive failed open attempts
    usbLines,       \* history: lines read from the port so far
    usbCmds,        \* history: the commands the channel accepted, in order
    connections,    \* history: successful open attempts so far
    \* ---- update manager (update_manager.rs, node_update.rs, probe_update.rs) ----
    target,         \* the update target under study: "node" | "probe"
    dirExists,      \* the deployed directory exists
    deployed,       \* the files of the target's kind in the deployed directory
    script,         \* the binary start.sh launches ("" before any self-update)
    updPc,          \* the position of the running check-and-update cycle
    remote,         \* the cycle's `version_info` (version.json)
    dataCrc,        \* the CRC32 computed over the downloaded bytes
    mounted,        \* the bootloader device is mounted
    updSink,        \* history: directives the update manager sent to usb_handle
    updCycles,      \* history: cycles started so far
    cyc,            \* history: the current (or last) cycle
    \* ---- command dispatchers and upload schedule ----
    now,            \* Utc::now(), seconds
    upload_interval_seconds, \* config.upload_interval_seconds
    upload_interval,\* command_executor.rs: the shared Duration, seconds
    update_interval,\* commands.rs / types.rs: the shared UpdateInterval
    filter_string,  \* the shared filter string (log_filter)
    serial_tx,      \* commands.rs: the shared Option<SerialStream> is Some
    portOut,        \* history: what commands.rs wrote to the port
    executed,       \* history: commands dispatched so far
    lastCmd,        \* history: the last dispatched command and what it did
    computed,       \* history: the last computation of the upload interval
    \* ---- the locks of the shared state and the tasks that take them ----
    lockPc,         \* the position of each task: at an `.await` or holding a guard
    lockHeld,       \* the guards each task holds
    lockLen,        \* the number of entries in the log buffer
    lockLogs,       \* the number of entries in sync_telemetry's local `logs`
    lockCommands,   \* the commands of the response not yet executed (their names)
    \* ---- the select! loop of the serial port manager, byte by byte ----
    muxPc,          \* "connected" (in select!) | "writing" | "flushing" | "closed"
    rx,             \* bytes the peer sent that the reader has not consumed yet
    read_buf,       \* the bytes the pending read_line future has consumed (its `buf`)
    peerLine,       \* the bytes of the line the peer is sending, before its newline
    owed,           \* the lines the peer sent in full whose newline is still in rx
    muxQueue,       \* the command channel (command_rx), oldest first
    muxCommand,     \* the command being written (<<>> when none)
    lineBit,        \* flips whenever read_line returns a line
    wireBit,        \* flips whenever a command is written and flushed
    cancelled,      \* history: a read_line future holding bytes was dropped
    intact,         \* history: every line read so far is the line the peer sent
    \* ---- the device-discovery poll (update_manager.rs) ----
    pollPc,         \* "probe" | "sleep" | "found" (Ok returned) | "timeout" (Err returned)
    attempt         \* wait_for_bootloader_device's loop variable `attempt`

bufVars == <<collector, max_size, entries, buffer, collectorPanic, syncPc, commands, logs,
             nextLine, cycles, pushed, vecPushed, drains, appended, last, decision>>

usbVars == <<usbPc, backoff_ms, sleepMs, cmdQueue, command, msgs, wire, attempts,
             openFails, usbLines, usbCmds, connections>>

updVars == <<target, dirExists, deployed, script, updPc, remote, dataCrc, mounted,
             updSink, updCycles, cyc>>

cmdVars == <<now, upload_interval_seconds, upload_interval, update_interval,
             filter_string, serial_tx, portOut, executed, lastCmd, computed>>

lockVars == <<lockPc, lockHeld, lockLen, lockLogs, lockCommands>>

muxVars == <<muxPc, rx, read_buf, peerLine, owed, muxQueue, muxCommand, lineBit,
             wireBit, cancelled, intact>>

pollVars == <<pollPc, attempt>>

vars == <<bufVars, usbVars, updVars, cmdVars, lockVars, muxVars, pollVars>>

\* what the actions of one subsystem leave alone
notBuf == <<usbVars, updVars, cmdVars, lockVars, muxVars, pollVars>>
notUsb == <<bufVars, updVars, cmdVars, lockVars, muxVars, pollVars>>
notUpd == <<bufVars, usbVars, cmdVars, lockVars, muxVars, pollVars>>
notCmd == <<bufVars, usbVars, updVars, lockVars, muxVars, pollVars>>
notLock == <<bufVars, usbVars, updVars, cmdVars, muxVars, pollVars>>
notMux == <<bufVars, usbVars, updVars, cmdVars, lockVars, pollVars>>
notPoll == <<bufVars, usbVars, updVars, cmdVars, lockVars, muxVars>>

(***************************************************************************)
(* Bounds of the model.                                                    *)
(***************************************************************************)
MaxCapacity == 3
MaxLines == 4
MaxCycles == 2
MaxAttempts == 8
MaxConnections == 2
MaxUsbLines == 1
MaxUsbCmds == 2
MaxVersion == 3
MaxUpdCycles == 2
MaxCommands == 1
MaxBody == 2
MaxLockLen == 2
MaxLockCommands == 2
MaxRx == 2
MaxLineLen == 2
MaxMuxQueue == 2

(***************************************************************************)
(* Sequences.                                                              *)
(***************************************************************************)
Reverse(s) == [i \in 1..Len(s) |-> s[Len(s) + 1 - i]]

\* the last n elements of s (all of s when it is shorter)
LastN(s, n) == IF Len(s) <= n THEN s ELSE SubSeq(s, Len(s) - n + 1, Len(s))

Range(s) == {s[i] : i \in 1..Len(s)}

(***************************************************************************)
(* types.rs: LogBuffer.                                                    *)
(***************************************************************************)
\* VecDeque::pop_front: removes the oldest entry, nothing on an empty queue
PopFront(q) == IF q = <<>> THEN q ELSE Tail(q)

\* LogBuffer::push
Push(q, e, cap) == (IF Len(q) >= cap THEN PopFront(q) ELSE q) \o <<e>>

RECURSIVE PushAll(_, _, _)
\* `for entry in ... { buffer.push(entry) }`
PushAll(q, es, cap) ==
    IF es = <<>> THEN q ELSE PushAll(Push(q, Head(es), cap), Tail(es), cap)

\* sync_telemetry's failure branch: `for entry in logs.into_iter().rev() { buffer.push(entry) }`
Requeue(q, ls, cap) == PushAll(q, Reverse(ls), cap)

\* usb_collector.rs: `if buf.len() >= config.buffer_size { buf.remove(0); } buf.push(entry)`.
\* Vec::remove(0) panics on an empty Vec.
VecPushPanics(b, cap) == Len(b) >= cap /\ b = <<>>
VecPush(b, e, cap) == (IF Len(b) >= cap THEN Tail(b) ELSE b) \o <<e>>

(***************************************************************************)
(* HTTP outcomes of the upload.                                            *)
(***************************************************************************)
StatusCodes == {200, 201, 500}
Is2xx(s) == s >= 200 /\ s <= 299
\* telemetry_sync.rs: `if response.status() == 200`
StatusIsSuccess(s) == s = 200

\* the body of a response: a JSON array of commands, or anything else
NoBody == [parses |-> FALSE, commands |-> <<>>]

\* the history of one upload cycle: how it went (`result`), the snapshot S,
\* the entries A appended during the request, the buffer after the response,
\* whether S was pushed back, the commands dispatched, and once the cycle is
\* over (`ended`) what sync_telemetry returned (`ok`), how many cycles in a
\* row have failed and how long the loop sleeps before the next cycle
NoCycle ==
    [result |-> "none", status |-> 0, S |-> <<>>, A |-> <<>>, after |-> <<>>,
     requeued |-> FALSE, body |-> NoBody, dispatched |-> <<>>, results |-> <<>>,
     ended |-> FALSE, ok |-> TRUE, failures |-> 0, wait |-> 0]

\* the history of one line: which collector read it, its text, the filter
\* the collector read for it, and whether the line was appended
NoDecision == [by |-> "none", text |-> <<>>, filter |-> "", kept |-> FALSE]

BufStart(cap, col) ==
    /\ collector = col
    /\ max_size = cap
    /\ entries = <<>>
    /\ buffer = <<>>
    /\ collectorPanic = FALSE
    /\ syncPc = "sleep"
    /\ commands = <<>>
    /\ logs = <<>>
    /\ nextLine = 1
    /\ cycles = 0
    /\ pushed = <<>>
    /\ vecPushed = <<>>
    /\ drains = 0
    /\ appended = <<>>
    /\ last = NoCycle
    /\ decision = NoDecision

\* the buffer subsystem at rest, for the specifications of the other subsystems
BufIdle == BufStart(1, "log_collector")

(***************************************************************************)
(* Lines of the serial link. A line is a sequence of tokens: a level tag   *)
(* such as "[INFO]" is one token, every other token is one character.      *)
(***************************************************************************)
LevelTags == {"[TRACE]", "[DEBUG]", "[INFO]", "[WARN]", "[ERROR]"}

LineTexts == { <<"[INFO]", " ", "g">>, <<"[INFO]", " ", "h">>, <<"h", " ", "g">> }

\* the characters of a filter string
Chars(f) == CASE f = "" -> <<>> [] f = "f" -> <<"f">> [] f = "g" -> <<"g">>

\* log_collector.rs is_valid_log_line: the line starts with a level tag
is_valid_log_line(l) == l # <<>> /\ Head(l) \in LevelTags

\* `str::contains`
contains(l, f) ==
    \E i \in 1..(Len(l) - Len(f) + 1) : SubSeq(l, i, i + Len(f) - 1) = f

\* both collectors: `filter.is_empty() || line.contains(&filter)`
PassesFilter(l, f) == f = "" \/ contains(l, Chars(f))

(***************************************************************************)
(* log_collector.rs connect_and_read: one line of the serial link. The     *)
(* line is buffered when it is a valid log line that passes the filter,    *)
(* which is read (and cloned) under its lock for this line.                *)
(***************************************************************************)
CollectorLine(text) ==
    /\ collector = "log_collector"
    /\ nextLine <= MaxLines
    /\ nextLine' = nextLine + 1
    /\ IF is_valid_log_line(text) /\ PassesFilter(text, filter_string)
         THEN /\ entries' = Push(entries, nextLine, max_size)
              /\ pushed' = pushed \o <<nextLine>>
              /\ appended' = appended \o <<nextLine>>
         ELSE UNCHANGED <<entries, pushed, appended>>
    /\ decision' = [by |-> "log_collector", text |-> text, filter |-> filter_string,
                    kept |-> is_valid_log_line(text)
                               /\ PassesFilter(text, filter_string)]
    /\ UNCHANGED <<collector, max_size, buffer, collectorPanic, syncPc, commands,
                   logs, cycles, vecPushed, drains, last>>
    /\ UNCHANGED notBuf

(***************************************************************************)
(* usb_collector.rs connect_and_read: one line; a line that passes the     *)
(* filter is pushed into the Vec buffer.                                   *)
(***************************************************************************)
UsbCollectorLine(text) ==
    /\ collector = "usb_collector"
    /\ ~collectorPanic
    /\ Len(vecPushed) < MaxLines
    /\ IF ~PassesFilter(text, filter_string)
         THEN UNCHANGED <<buffer, vecPushed, collectorPanic>>
         ELSE IF VecPushPanics(buffer, max_size)
                THEN /\ collectorPanic' = TRUE
                     /\ UNCHANGED <<buffer, vecPushed>>
                ELSE /\ buffer' = VecPush(buffer, Len(vecPushed) + 1, max_size)
                     /\ vecPushed' = vecPushed \o <<Len(vecPushed) + 1>>
                     /\ UNCHANGED collectorPanic
    /\ decision' = [by |-> "usb_collector", text |-> text, filter |-> filter_string,
                    kept |-> PassesFilter(text, filter_string)
                               /\ ~VecPushPanics(buffer, max_size)]
    /\ UNCHANGED <<collector, max_size, entries, syncPc, commands, logs, nextLine,
                   cycles, pushed, drains, appended, last>>
    /\ UNCHANGED notBuf

(***************************************************************************)
(* usb_manager.rs: the serial port manager.                                *)
(***************************************************************************)
INITIAL_BACKOFF_MS == 1000
MAX_BACKOFF_MS == 60000
\* main.rs: `mpsc::channel(32)` for UsbCommand
CommandChannelCapacity == 32

Min(a, b) == IF a <= b THEN a ELSE b

\* a doubling that forgets the cap
NextBackoffUncapped(b) == b * 2

\* `backoff_ms = (backoff_ms * 2).min(MAX_BACKOFF_MS)`
NextBackoff(b) == Min(b * 2, MAX_BACKOFF_MS)

\* what the port delivers for one read_line: the text and its line terminator
RawLines == { <<"\n">>, <<"\r", "\n">>, <<"a", "\r", "\n">>, <<"a", " ", "b", "\n">> }
Whitespace == {" ", "\r", "\n"}

RECURSIVE TrimEnd(_)
\* str::trim_end
TrimEnd(l) ==
    IF l # <<>> /\ l[Len(l)] \in Whitespace
      THEN TrimEnd(SubSeq(l, 1, Len(l) - 1))
      ELSE l

UsbCommands == {"/LD", "/BS"}

\* a command written without its line terminator
NoFrame(c) == c

\* `format!("{}\r\n", command)`
Frame(c) == c \o "\r\n"

UsbStart ==
    /\ usbPc = "connect"
    /\ backoff_ms = INITIAL_BACKOFF_MS
    /\ sleepMs = 0
    /\ cmdQueue = <<>>
    /\ command = <<>>
    /\ msgs = <<>>
    /\ wire = <<>>
    /\ attempts = 0
    /\ openFails = 0
    /\ usbLines = 0
    /\ usbCmds = <<>>
    /\ connections = 0

UsbIdle == UsbStart

\* run(): connect_and_handle returned Err(e): Disconnected is sent and the
\* task sleeps backoff_ms
UsbFailed ==
    /\ msgs' = msgs \o << <<"Disconnected">> >>
    /\ sleepMs' = backoff_ms
    /\ usbPc' = "backoff"
    /\ UNCHANGED backoff_ms

\* connect_and_handle: open_native_async fails
UsbOpenFail ==
    /\ usbPc = "connect"
    /\ attempts < MaxAttempts
    /\ attempts' = attempts + 1
    /\ openFails' = openFails + 1
    /\ UsbFailed
    /\ UNCHANGED <<cmdQueue, command, wire, usbLines, usbCmds, connections>>
    /\ UNCHANGED notUsb

\* connect_and_handle: the port opens; Connected is sent
UsbOpenOk ==
    /\ usbPc = "connect"
    /\ attempts < MaxAttempts
    /\ connections < MaxConnections
    /\ connections' = connections + 1
    /\ attempts' = attempts + 1
    /\ openFails' = 0
    /\ msgs' = msgs \o << <<"Connected">> >>
    /\ usbPc' = "connected"
    /\ UNCHANGED <<backoff_ms, sleepMs, cmdQueue, command, wire, usbLines, usbCmds>>
    /\ UNCHANGED notUsb

\* select!: read_line returned Ok(n), n > 0
UsbReadLine(raw) ==
    /\ usbPc = "connected"
    /\ usbLines < MaxUsbLines
    /\ usbLines' = usbLines + 1
    /\ msgs' = IF TrimEnd(raw) # <<>>
                 THEN msgs \o << <<"LineReceived", TrimEnd(raw)>> >>
                 ELSE msgs
    /\ UNCHANGED <<usbPc, backoff_ms, sleepMs, cmdQueue, command, wire, attempts,
                   openFails, usbCmds, connections>>
    /\ UNCHANGED notUsb

\* select!: read_line returned Ok(0): break, connect_and_handle returns Ok,
\* run() resets the backoff and loops
UsbReadEof ==
    /\ usbPc = "connected"
    /\ backoff_ms' = INITIAL_BACKOFF_MS
    /\ usbPc' = "connect"
    /\ UNCHANGED <<sleepMs, cmdQueue, command, msgs, wire, attempts, openFails,
                   usbLines, usbCmds, connections>>
    /\ UNCHANGED notUsb

\* select!: read_line returned Err
UsbReadError ==
    /\ usbPc = "connected"
    /\ UsbFailed
    /\ UNCHANGED <<cmdQueue, command, wire, attempts, openFails, usbLines, usbCmds,
                   connections>>
    /\ UNCHANGED notUsb

\* select!: command_rx.recv() returned a command; the branch body starts
\* and write_all is awaited
UsbRecvCommand ==
    /\ usbPc = "connected"
    /\ cmdQueue # <<>>
    /\ command' = command \o <<Head(cmdQueue)>>
    /\ cmdQueue' = Tail(cmdQueue)
    /\ usbPc' = "writing"
    /\ UNCHANGED <<backoff_ms, sleepMs, msgs, wire, attempts, openFails, usbLines,
                   usbCmds, connections>>
    /\ UNCHANGED notUsb

\* write_all(format!("{}\r\n", command)) returns; on Err the function
\* returns Err and the command is gone with it
UsbWriteAll(ok) ==
    /\ usbPc = "writing"
    /\ IF ok
         THEN /\ usbPc' = "flushing"
              /\ UNCHANGED <<command, backoff_ms, sleepMs, msgs>>
         ELSE /\ command' = <<>>
              /\ UsbFailed
    /\ UNCHANGED <<cmdQueue, wire, attempts, openFails, usbLines, usbCmds, connections>>
    /\ UNCHANGED notUsb

\* flush() returns; on Ok the framed command is on the wire and the loop
\* goes back to select!
UsbFlush(ok) ==
    /\ usbPc = "flushing"
    /\ command' = <<>>
    /\ IF ok
         THEN /\ wire' = wire \o [i \in 1..Len(command) |-> Frame(command[i])]
              /\ usbPc' = "connected"
              /\ UNCHANGED <<backoff_ms, sleepMs, msgs>>
         ELSE /\ UsbFailed
              /\ UNCHANGED wire
    /\ UNCHANGED <<cmdQueue, attempts, openFails, usbLines, usbCmds, connections>>
    /\ UNCHANGED notUsb

\* run(): the sleep is over; the backoff doubles up to its cap
UsbBackoffDone ==
    /\ usbPc = "backoff"
    /\ backoff_ms' = NextBackoff(backoff_ms)
    /\ sleepMs' = 0
    /\ usbPc' = "connect"
    /\ UNCHANGED <<cmdQueue, command, msgs, wire, attempts, openFails, usbLines,
                   usbCmds, connections>>
    /\ UNCHANGED notUsb

\* UsbHandle::send_command: the send completes when the channel has room
UsbSendCommand(c) ==
    /\ Len(usbCmds) < MaxUsbCmds
    /\ Len(cmdQueue) < CommandChannelCapacity
    /\ cmdQueue' = cmdQueue \o <<c>>
    /\ usbCmds' = usbCmds \o <<c>>
    /\ UNCHANGED <<usbPc, backoff_ms, sleepMs, command, msgs, wire, attempts,
                   openFails, usbLines, connections>>
    /\ UNCHANGED notUsb

NextUsb ==
    \/ UsbOpenFail
    \/ UsbOpenOk
    \/ \E raw \in RawLines : UsbReadLine(raw)
    \/ UsbReadEof
    \/ UsbReadError
    \/ UsbRecvCommand
    \/ \E ok \in BOOLEAN : UsbWriteAll(ok)
    \/ \E ok \in BOOLEAN : UsbFlush(ok)
    \/ UsbBackoffDone
    \/ \E c \in UsbCommands : UsbSendCommand(c)

(***************************************************************************)
(* update_manager.rs, node_update.rs, probe_update.rs: the update manager. *)
(*                                                                         *)
(* One check-and-update cycle runs at a time for the target under study    *)
(* (`target`); the deployed directory holds the files of that target's     *)
(* kind, each modelled by the version part of its name ("2" stands for     *)
(* moonblokz_2.uf2 or moonblokz_probe_2, "x" for a name of the kind whose  *)
(* version does not parse).                                                *)
(***************************************************************************)
Versions == 0..MaxVersion

FileName(v) == ToString(v)
FileNames == {FileName(v) : v \in 1..MaxVersion} \cup {"x"}

\* `version_str.parse::<u32>()`; -1 stands for Err
ParseVersion(name) ==
    IF \E v \in 0..(MaxVersion + 1) : ToString(v) = name
      THEN CHOOSE v \in 0..(MaxVersion + 1) : ToString(v) = name
      ELSE -1

ParsedVersions(dir) == {ParseVersion(f) : f \in dir} \ {-1}

SetMax(S) == CHOOSE m \in S : \A x \in S : x <= m

\* a listing in which no version is ever found
NothingListed(dir) == {0}

\* update_manager.rs get_current_node_version / get_current_probe_version:
\* the version of the first entry of the listing whose version parses, 0
\* when there is none. read_dir lists in no specified order, so any
\* parseable entry may come first.
FirstListed(dir) == IF ParsedVersions(dir) = {} THEN {0} ELSE ParsedVersions(dir)

\* node_update.rs / probe_update.rs get_current_*_version: the maximum
MaxListed(dir) == IF ParsedVersions(dir) = {} THEN 0 ELSE SetMax(ParsedVersions(dir))

(***************************************************************************)
(* Checksums. The CRC is modelled with 8 bits (two hex digits) where the   *)
(* code has 32 (eight): parsing, formatting and overflow work alike.       *)
(***************************************************************************)
CrcLimit == 16 * 16
DataCrcs == {10, 160}
CrcStrings == { <<>>, <<"a">>, <<"0", "a">>, <<"0", "A">>, <<"a", "0">>, <<"g">>, <<"+", "a">>,
                <<"0", "0", "a">>, <<"1", "0", "0">> }

HexDigit(c) ==
    CASE c = "0" -> 0 [] c = "1" -> 1 [] c = "a" -> 10 [] c = "A" -> 10 [] OTHER -> -1

RECURSIVE HexFold(_, _)
HexFold(s, acc) ==
    IF s = <<>> THEN acc
    ELSE IF HexDigit(Head(s)) < 0 \/ acc * 16 + HexDigit(Head(s)) >= CrcLimit THEN -1
    ELSE HexFold(Tail(s), acc * 16 + HexDigit(Head(s)))

\* `u32::from_str_radix(&version_info.crc32, 16)`; -1 stands for Err (empty,
\* invalid digit, overflow); one leading "+" is accepted
FromStrRadix16(s) ==
    IF s = <<>> THEN -1
    ELSE IF Head(s) = "+" THEN (IF Tail(s) = <<>> THEN -1 ELSE HexFold(Tail(s), 0))
    ELSE HexFold(s, 0)

HexChar(d) == CASE d = 0 -> "0" [] d = 1 -> "1" [] d = 10 -> "a" [] OTHER -> "?"

\* `format!("{:08x}", crc)`
FormatHex(crc) == <<HexChar(crc \div 16), HexChar(crc % 16)>>

\* a verification that accepts everything
CrcAlwaysVerified(str, crc) == TRUE

\* update_manager.rs: the descriptor's checksum parses and equals the computed CRC
UmCrcVerified(str, crc) == FromStrRadix16(str) >= 0 /\ crc = FromStrRadix16(str)

\* node_update.rs / probe_update.rs: `crc_hex != version_info.crc32` is false
OldCrcVerified(str, crc) == FormatHex(crc) = str

\* a version check that lets an equal version through
UpToDateStrict(remoteVersion, current) == remoteVersion < current

\* `if version_info.version <= current_version { return Ok(()) }`
UpToDate(remoteVersion, current) == remoteVersion <= current

Descriptors == [version : Versions, crc32 : CrcStrings]

NoDescriptor == [version |-> 0, crc32 |-> <<>>]

\* the history of one check-and-update cycle
\* the routines that install what they verified (node_update.rs leaves the
\* installation of the image it verified to the operator)
Installers == {"um_node", "um_probe", "pu"}

NoSummary == [proc |-> "none", remote |-> 0, remoteCrc |-> <<>>]

\* what a cycle's history keeps of the cycle before it: the descriptor that
\* cycle installed into an empty deployed directory, if it did
Summary(c) ==
    IF c.proc \in Installers /\ c.outcome = "done" /\ c.dir0 = {}
      THEN [proc |-> c.proc, remote |-> c.remote, remoteCrc |-> c.remoteCrc]
      ELSE NoSummary

NewCycle(proc, rv, cur) ==
    [proc |-> proc, fetched |-> TRUE, checked |-> TRUE, prev |-> Summary(cyc),
     outcome |-> IF UpToDate(rv.version, cur) THEN "uptodate" ELSE "running",
     current |-> cur, remote |-> rv.version, remoteCrc |-> rv.crc32,
     downloaded |-> FALSE, steps |-> <<>>, rebooted |-> FALSE,
     dir0 |-> deployed, script0 |-> script, sink0 |-> updSink]

\* a cycle that ended in the version check (fetch or directory listing failed)
CheckFailed(proc, fetched) ==
    [proc |-> proc, fetched |-> fetched, checked |-> FALSE, prev |-> Summary(cyc),
     outcome |-> "error",
     current |-> 0, remote |-> 0, remoteCrc |-> <<>>,
     downloaded |-> FALSE, steps |-> <<>>, rebooted |-> FALSE,
     dir0 |-> deployed, script0 |-> script, sink0 |-> updSink]

NoUpdate ==
    [proc |-> "none", fetched |-> FALSE, checked |-> FALSE, prev |-> NoSummary,
     outcome |-> "none",
     current |-> 0, remote |-> 0, remoteCrc |-> <<>>,
     downloaded |-> FALSE, steps |-> <<>>, rebooted |-> FALSE,
     dir0 |-> {}, script0 |-> "", sink0 |-> <<>>]

Did(step) == [cyc EXCEPT !.steps = Append(@, step)]

\* the cycle ends with Err and no reboot
Failed(c) == [c EXCEPT !.outcome = "error"]

\* an error that is returned with no reboot
FailedWithoutReboot(c) == [c EXCEPT !.outcome = "error"]

\* check_and_update_node_firmware: perform_node_firmware_update returned
\* Err: sleep 2 s, reboot_system(), return the error
FailedWithReboot(c) ==
    [c EXCEPT !.outcome = "error", !.steps = Append(@, "reboot"), !.rebooted = TRUE]

UpdStart(t, exists, dir, scr) ==
    /\ target = t
    /\ dirExists = exists
    /\ deployed = dir
    /\ script = scr
    /\ updPc = "idle"
    /\ remote = NoDescriptor
    /\ dataCrc = 0
    /\ mounted = FALSE
    /\ updSink = <<>>
    /\ updCycles = 0
    /\ cyc = [NoUpdate EXCEPT !.dir0 = dir, !.script0 = scr]

UpdIdle == UpdStart("node", FALSE, {}, "")

\* the version check of every routine: fetch version.json, list the
\* deployed directory, compare
VersionCheck(proc, fetchOk, listOk, rv, cur, next) ==
    /\ updPc = "idle"
    /\ updCycles < MaxUpdCycles
    /\ updCycles' = updCycles + 1
    /\ IF fetchOk /\ listOk
         THEN /\ remote' = rv
              /\ cyc' = NewCycle(proc, rv, cur)
              /\ updPc' = IF UpToDate(rv.version, cur) THEN "idle" ELSE next
         ELSE /\ cyc' = CheckFailed(proc, fetchOk)
              /\ UNCHANGED <<remote, updPc>>
    /\ UNCHANGED <<target, deployed, script, dataCrc, mounted, updSink>>

\* the artifact download of every routine
Download(ok, crc, next, onError) ==
    /\ IF ok
         THEN /\ dataCrc' = crc
              /\ cyc' = [Did("download") EXCEPT !.downloaded = TRUE]
              /\ updPc' = next
         ELSE /\ cyc' = onError
              /\ updPc' = "idle"
              /\ UNCHANGED dataCrc
    /\ UNCHANGED <<target, dirExists, deployed, script, remote, mounted, updSink,
                   updCycles>>

\* a step that changes nothing but the cycle's position
Step(ok, name, next, onError) ==
    /\ cyc' = IF ok THEN Did(name) ELSE onError
    /\ updPc' = IF ok THEN next ELSE "idle"

(***************************************************************************)
(* update_manager.rs: the node firmware.                                   *)
(***************************************************************************)
\* check_and_update_node_firmware, up to the decision
UmNodeCheck(fetchOk, rv, cur) ==
    /\ target = "node"
    /\ VersionCheck("um_node", fetchOk, dirExists, rv, cur, "um_node_download")
    /\ UNCHANGED dirExists
    /\ UNCHANGED notUpd

\* perform_node_firmware_update: download
UmNodeDownload(ok, crc) ==
    /\ updPc = "um_node_download"
    /\ Download(ok, crc, "um_node_verify", FailedWithReboot(cyc))
    /\ UNCHANGED notUpd

\* perform_node_firmware_update: verify the CRC32, save the temporary file
UmNodeVerify(writeOk) ==
    /\ updPc = "um_node_verify"
    /\ IF UmCrcVerified(remote.crc32, dataCrc)
         THEN /\ cyc' = IF writeOk
                          THEN [cyc EXCEPT !.steps = @ \o <<"verify", "temp">>]
                          ELSE FailedWithReboot(Did("verify"))
              /\ updPc' = IF writeOk THEN "um_node_bootsel" ELSE "idle"
         ELSE /\ cyc' = FailedWithReboot(cyc)
              /\ updPc' = "idle"
    /\ UNCHANGED <<target, dirExists, deployed, script, remote, dataCrc, mounted,
                   updSink, updCycles>>
    /\ UNCHANGED notUpd

\* `usb_handle.send_command("/BS").await?`: the send fails when the receiving
\* end of the channel is closed
UmNodeBootsel(ok) ==
    /\ updPc = "um_node_bootsel"
    /\ updSink' = IF ok THEN Append(updSink, "/BS") ELSE updSink
    /\ Step(ok, "/BS", "um_node_wait", FailedWithReboot(cyc))
    /\ UNCHANGED <<target, dirExists, deployed, script, remote, dataCrc, mounted,
                   updCycles>>
    /\ UNCHANGED notUpd

\* wait_for_bootloader_device: the device is found, or the poll times out
UmNodeWaitDevice(found) ==
    /\ updPc = "um_node_wait"
    /\ Step(found, "device", "um_node_mount", FailedWithReboot(cyc))
    /\ UNCHANGED <<target, dirExists, deployed, script, remote, dataCrc, mounted,
                   updSink, updCycles>>
    /\ UNCHANGED notUpd

\* create_dir_all(mount_point), mount_bootloader
UmNodeMount(ok) ==
    /\ updPc = "um_node_mount"
    /\ Step(ok, "mount", "um_node_copy", FailedWithReboot(cyc))
    /\ mounted' = ok
    /\ UNCHANGED <<target, dirExists, deployed, script, remote, dataCrc, updSink,
                   updCycles>>
    /\ UNCHANGED notUpd

\* fs::copy onto the device; on failure unmount_bootloader is tried
\* (`let _ =`) before the error is returned
UmNodeCopy(ok, unmountOk) ==
    /\ updPc = "um_node_copy"
    /\ Step(ok, "copy", "um_node_sync",
            FailedWithReboot(Did("unmount_attempt")))
    /\ mounted' = IF ok THEN mounted ELSE ~unmountOk
    /\ UNCHANGED <<target, dirExists, deployed, script, remote, dataCrc, updSink,
                   updCycles>>
    /\ UNCHANGED notUpd

\* `sync_filesystem().await?`
UmNodeSync(ok) ==
    /\ updPc = "um_node_sync"
    /\ Step(ok, "sync", "um_node_unmount", FailedWithReboot(cyc))
    /\ UNCHANGED <<target, dirExists, deployed, script, remote, dataCrc, mounted,
                   updSink, updCycles>>
    /\ UNCHANGED notUpd

\* an unmount whose result is ignored
UmNodeUnmountUnchecked(ok) ==
    /\ updPc = "um_node_unmount"
    /\ cyc' = IF ok
                THEN [cyc EXCEPT !.steps = @ \o <<"unmount", "settle">>]
                ELSE [cyc EXCEPT !.steps = @ \o <<"unmount_attempt", "settle">>]
    /\ updPc' = "um_node_deploy"
    /\ mounted' = ~ok
    /\ UNCHANGED <<target, dirExists, deployed, script, remote, dataCrc, updSink,
                   updCycles>>
    /\ UNCHANGED notUpd

\* `unmount_bootloader(mount_point).await?`, then the 5 s settle delay
UmNodeUnmount(ok) ==
    /\ updPc = "um_node_unmount"
    /\ cyc' = IF ok
                THEN [cyc EXCEPT !.steps = @ \o <<"unmount", "settle">>]
                ELSE FailedWithReboot(Did("unmount_attempt"))
    /\ updPc' = IF ok THEN "um_node_deploy" ELSE "idle"
    /\ mounted' = ~ok
    /\ UNCHANGED <<target, dirExists, deployed, script, remote, dataCrc, updSink,
                   updCycles>>
    /\ UNCHANGED notUpd

\* create_dir_all(DEPLOYED_DIR), rename the temporary file into it
UmNodeDeploy(ok) ==
    /\ updPc = "um_node_deploy"
    /\ Step(ok, "deploy", "um_node_cleanup", FailedWithReboot(cyc))
    /\ dirExists' = (dirExists \/ ok)
    /\ deployed' = IF ok THEN deployed \cup {FileName(remote.version)} ELSE deployed
    /\ UNCHANGED <<target, script, remote, dataCrc, mounted, updSink, updCycles>>
    /\ UNCHANGED notUpd

\* a cleanup that finds nothing to remove
NoneOlder(dir, v) == {}

\* the files cleanup_old_*_versions(current) removes: `version < current`
OlderThan(dir, v) == {f \in dir : ParseVersion(f) >= 0 /\ ParseVersion(f) < v}

\* cleanup_old_node_versions: every older file is removed, or a removal
\* fails after `removed` were (the listing order is unspecified)
UmNodeCleanup(ok, removed) ==
    /\ updPc = "um_node_cleanup"
    /\ removed \subseteq OlderThan(deployed, remote.version)
    /\ ok => removed = OlderThan(deployed, remote.version)
    /\ deployed' = deployed \ removed
    /\ cyc' = IF ok THEN [Did("cleanup") EXCEPT !.outcome = "done"]
                    ELSE FailedWithReboot(cyc)
    /\ updPc' = "idle"
    /\ UNCHANGED <<target, dirExists, script, remote, dataCrc, mounted, updSink,
                   updCycles>>
    /\ UNCHANGED notUpd

(***************************************************************************)
(* update_manager.rs: the probe binary.                                    *)
(***************************************************************************)
\* check_and_update_probe, up to the decision
UmProbeCheck(fetchOk, rv, cur) ==
    /\ target = "probe"
    /\ VersionCheck("um_probe", fetchOk, dirExists, rv, cur, "um_probe_download")
    /\ UNCHANGED dirExists
    /\ UNCHANGED notUpd

UmProbeDownload(ok, crc) ==
    /\ updPc = "um_probe_download"
    /\ Download(ok, crc, "um_probe_verify", Failed(cyc))
    /\ UNCHANGED notUpd

\* verify the CRC32
UmProbeVerify ==
    /\ updPc = "um_probe_verify"
    /\ Step(UmCrcVerified(remote.crc32, dataCrc), "verify", "um_probe_write",
            Failed(cyc))
    /\ UNCHANGED <<target, dirExists, deployed, script, remote, dataCrc, mounted,
                   updSink, updCycles>>
    /\ UNCHANGED notUpd

\* create_dir_all(DEPLOYED_DIR), write the new binary
UmProbeWrite(ok) ==
    /\ updPc = "um_probe_write"
    /\ Step(ok, "write", "um_probe_chmod", Failed(cyc))
    /\ dirExists' = (dirExists \/ ok)
    /\ deployed' = IF ok THEN deployed \cup {FileName(remote.version)} ELSE deployed
    /\ UNCHANGED <<target, script, remote, dataCrc, mounted, updSink, updCycles>>
    /\ UNCHANGED notUpd

\* set the executable bit
UmProbeChmod(ok) ==
    /\ updPc = "um_probe_chmod"
    /\ Step(ok, "chmod", "um_probe_script", Failed(cyc))
    /\ UNCHANGED <<target, dirExists, deployed, script, remote, dataCrc, mounted,
                   updSink, updCycles>>
    /\ UNCHANGED notUpd

\* write start.sh, then set its mode: r is "ok", "write" (the write failed)
\* or "chmod" (the script was written, setting its mode failed)
UmProbeScript(r) ==
    /\ updPc = "um_probe_script"
    /\ script' = IF r = "write" THEN script ELSE FileName(remote.version)
    /\ cyc' = CASE r = "ok" -> Did("script")
                [] r = "write" -> Failed(cyc)
                [] OTHER -> Failed(Did("script"))
    /\ updPc' = IF r = "ok" THEN "um_probe_cleanup" ELSE "idle"
    /\ UNCHANGED <<target, dirExists, deployed, remote, dataCrc, mounted, updSink,
                   updCycles>>
    /\ UNCHANGED notUpd

\* cleanup_old_probe_versions
UmProbeCleanup(ok, removed) ==
    /\ updPc = "um_probe_cleanup"
    /\ removed \subseteq OlderThan(deployed, remote.version)
    /\ ok => removed = OlderThan(deployed, remote.version)
    /\ deployed' = deployed \ removed
    /\ cyc' = IF ok THEN Did("cleanup") ELSE Failed(cyc)
    /\ updPc' = IF ok THEN "um_probe_reboot" ELSE "idle"
    /\ UNCHANGED <<target, dirExists, script, remote, dataCrc, mounted, updSink,
                   updCycles>>
    /\ UNCHANGED notUpd

\* sleep 5 s, `reboot_system().await?`
UmProbeReboot(ok) ==
    /\ updPc = "um_probe_reboot"
    /\ cyc' = [Did("reboot") EXCEPT !.rebooted = TRUE,
                                    !.outcome = IF ok THEN "done" ELSE "error"]
    /\ updPc' = "idle"
    /\ UNCHANGED <<target, dirExists, deployed, script, remote, dataCrc, mounted,
                   updSink, updCycles>>
    /\ UNCHANGED notUpd

(***************************************************************************)
(* node_update.rs: check_and_update.                                       *)
(***************************************************************************)
\* up to the decision; get_current_node_version creates a missing directory
NuCheck(fetchOk, rv) ==
    /\ target = "node"
    /\ VersionCheck("nu", fetchOk, TRUE, rv, MaxListed(deployed), "nu_download")
    /\ dirExists' = (dirExists \/ fetchOk)
    /\ UNCHANGED notUpd

NuDownload(ok, crc) ==
    /\ updPc = "nu_download"
    /\ Download(ok, crc, "nu_verify", Failed(cyc))
    /\ UNCHANGED notUpd

\* verify the CRC32, write /tmp/firmware.uf2; the installation itself is
\* left to the operator
NuVerify(writeOk) ==
    /\ updPc = "nu_verify"
    /\ cyc' = IF OldCrcVerified(remote.crc32, dataCrc)
                THEN IF writeOk
                       THEN [cyc EXCEPT !.steps = @ \o <<"verify", "temp">>,
                                        !.outcome = "done"]
                       ELSE Failed(Did("verify"))
                ELSE Failed(cyc)
    /\ updPc' = "idle"
    /\ UNCHANGED <<target, dirExists, deployed, script, remote, dataCrc, mounted,
                   updSink, updCycles>>
    /\ UNCHANGED notUpd

(***************************************************************************)
(* probe_update.rs: check_and_update.                                      *)
(***************************************************************************)
PuCheck(fetchOk, rv) ==
    /\ target = "probe"
    /\ VersionCheck("pu", fetchOk, TRUE, rv, MaxListed(deployed), "pu_download")
    /\ dirExists' = (dirExists \/ fetchOk)
    /\ UNCHANGED notUpd

PuDownload(ok, crc) ==
    /\ updPc = "pu_download"
    /\ Download(ok, crc, "pu_verify", Failed(cyc))
    /\ UNCHANGED notUpd

PuVerify ==
    /\ updPc = "pu_verify"
    /\ Step(OldCrcVerified(remote.crc32, dataCrc), "verify", "pu_write", Failed(cyc))
    /\ UNCHANGED <<target, dirExists, deployed, script, remote, dataCrc, mounted,
                   updSink, updCycles>>
    /\ UNCHANGED notUpd

\* create_dir_all, write the new binary
PuWrite(ok) ==
    /\ updPc = "pu_write"
    /\ Step(ok, "write", "pu_chmod", Failed(cyc))
    /\ dirExists' = (dirExists \/ ok)
    /\ deployed' = IF ok THEN deployed \cup {FileName(remote.version)} ELSE deployed
    /\ UNCHANGED <<target, script, remote, dataCrc, mounted, updSink, updCycles>>
    /\ UNCHANGED notUpd

PuChmod(ok) ==
    /\ updPc = "pu_chmod"
    /\ Step(ok, "chmod", "pu_remove", Failed(cyc))
    /\ UNCHANGED <<target, dirExists, deployed, script, remote, dataCrc, mounted,
                   updSink, updCycles>>
    /\ UNCHANGED notUpd

\* "Remove old binaries": every file of the kind but the new one
OtherThan(dir, v) == {f \in dir : f # FileName(v)}

PuRemoveOld(ok, removed) ==
    /\ updPc = "pu_remove"
    /\ removed \subseteq OtherThan(deployed, remote.version)
    /\ ok => removed = OtherThan(deployed, remote.version)
    /\ deployed' = deployed \ removed
    /\ cyc' = IF ok THEN Did("cleanup") ELSE Failed(cyc)
    /\ updPc' = IF ok THEN "pu_script" ELSE "idle"
    /\ UNCHANGED <<target, dirExists, script, remote, dataCrc, mounted, updSink,
                   updCycles>>
    /\ UNCHANGED notUpd

PuScript(r) ==
    /\ updPc = "pu_script"
    /\ script' = IF r = "write" THEN script ELSE FileName(remote.version)
    /\ cyc' = CASE r = "ok" -> Did("script")
                [] r = "write" -> Failed(cyc)
                [] OTHER -> Failed(Did("script"))
    /\ updPc' = IF r = "ok" THEN "pu_reboot" ELSE "idle"
    /\ UNCHANGED <<target, dirExists, deployed, remote, dataCrc, mounted, updSink,
                   updCycles>>
    /\ UNCHANGED notUpd

\* `Command::new("sudo").arg("reboot").spawn()`
PuReboot(ok) ==
    /\ updPc = "pu_reboot"
    /\ cyc' = IF ok THEN [Did("reboot") EXCEPT !.rebooted = TRUE, !.outcome = "done"]
                    ELSE Failed(cyc)
    /\ updPc' = "idle"
    /\ UNCHANGED <<target, dirExists, deployed, script, remote, dataCrc, mounted,
                   updSink, updCycles>>
    /\ UNCHANGED notUpd

ScriptResults == {"ok", "write", "chmod"}

NextUpd ==
    \/ \E fetchOk \in BOOLEAN, rv \in Descriptors, cur \in FirstListed(deployed) :
          UmNodeCheck(fetchOk, rv, cur)
    \/ \E ok \in BOOLEAN, crc \in DataCrcs : UmNodeDownload(ok, crc)
    \/ \E ok \in BOOLEAN : UmNodeVerify(ok)
    \/ \E ok \in BOOLEAN : UmNodeBootsel(ok)
    \/ \E found \in BOOLEAN : UmNodeWaitDevice(found)
    \/ \E ok \in BOOLEAN : UmNodeMount(ok)
    \/ \E ok \in BOOLEAN, unmountOk \in BOOLEAN : UmNodeCopy(ok, unmountOk)
    \/ \E ok \in BOOLEAN : UmNodeSync(ok)
    \/ \E ok \in BOOLEAN : UmNodeUnmount(ok)
    \/ \E ok \in BOOLEAN : UmNodeDeploy(ok)
    \/ \E ok \in BOOLEAN, removed \in SUBSET deployed : UmNodeCleanup(ok, removed)
    \/ \E fetchOk \in BOOLEAN, rv \in Descriptors, cur \in FirstListed(deployed) :
          UmProbeCheck(fetchOk, rv, cur)
    \/ \E ok \in BOOLEAN, crc \in DataCrcs : UmProbeDownload(ok, crc)
    \/ UmProbeVerify
    \/ \E ok \in BOOLEAN : UmProbeWrite(ok)
    \/ \E ok \in BOOLEAN : UmProbeChmod(ok)
    \/ \E r \in ScriptResults : UmProbeScript(r)
    \/ \E ok \in BOOLEAN, removed \in SUBSET deployed : UmProbeCleanup(ok, removed)
    \/ \E ok \in BOOLEAN : UmProbeReboot(ok)
    \/ \E fetchOk \in BOOLEAN, rv \in Descriptors : NuCheck(fetchOk, rv)
    \/ \E ok \in BOOLEAN, crc \in DataCrcs : NuDownload(ok, crc)
    \/ \E ok \in BOOLEAN : NuVerify(ok)
    \/ \E fetchOk \in BOOLEAN, rv \in Descriptors : PuCheck(fetchOk, rv)
    \/ \E ok \in BOOLEAN, crc \in DataCrcs : PuDownload(ok, crc)
    \/ PuVerify
    \/ \E ok \in BOOLEAN : PuWrite(ok)
    \/ \E ok \in BOOLEAN : PuChmod(ok)
    \/ \E ok \in BOOLEAN, removed \in SUBSET deployed : PuRemoveOld(ok, removed)
    \/ \E r \in ScriptResults : PuScript(r)
    \/ \E ok \in BOOLEAN : PuReboot(ok)

(***************************************************************************)
(* commands.rs, command_executor.rs, types.rs: the command dispatchers and *)
(* the upload schedule.                                                    *)
(*                                                                         *)
(* Times are seconds. None (an absent Option<DateTime>) is -1. A field of  *)
(* a command is a record [set, v]: `set` tells whether the JSON object     *)
(* carries the field. `nested` tells whether the fields sit under the key  *)
(* "parameters" or next to the command name. Log levels are sequences of   *)
(* characters, so that case conversion is computed; a timestamp string is  *)
(* "" , "bad" (not RFC 3339) or ToString(t), standing for the RFC 3339     *)
(* text of the time t.                                                     *)
(***************************************************************************)
T0 == 10 * 1000
Times == {T0 - 10, T0, T0 + 10, T0 + 70, T0 + 3600, T0 + 5000}
Periods == {0, 30, 60}
ConfigIntervals == {300}
None == -1

\* `DateTime::parse_from_rfc3339`; -1 stands for Err
ParseRfc3339(s) ==
    IF \E t \in Times : ToString(t) = s
      THEN CHOOSE t \in Times : ToString(t) = s
      ELSE -1

\* types.rs `impl Default for UpdateInterval`
DefaultUpdateInterval ==
    [start_time |-> None, end_time |-> None, active_period |-> 60,
     inactive_period |-> 60, default_interval |-> 60]

\* the value that stands for a panic of the computing task
Panic == -2

\* types.rs UpdateInterval::get_current_interval; `elapsed % cycle` panics
\* when cycle is 0
get_current_interval(u, t) ==
    IF u.start_time # None /\ u.end_time # None /\ t >= u.start_time /\ t <= u.end_time
      THEN IF u.active_period + u.inactive_period = 0
             THEN Panic
             ELSE IF (t - u.start_time) % (u.active_period + u.inactive_period)
                       < u.active_period
                    THEN u.active_period
                    ELSE u.inactive_period
      ELSE u.default_interval

\* command_executor.rs UploadSchedule::current_interval
current_interval(s, t) ==
    IF s.start_time # None /\ s.end_time # None /\ t >= s.start_time /\ t <= s.end_time
      THEN s.active_period
      ELSE s.inactive_period

(***************************************************************************)
(* Log levels.                                                             *)
(***************************************************************************)
UpperChar(c) ==
    CASE c = "a" -> "A" [] c = "b" -> "B" [] c = "c" -> "C" [] c = "d" -> "D"
      [] c = "e" -> "E" [] c = "f" -> "F" [] c = "g" -> "G" [] c = "i" -> "I"
      [] c = "n" -> "N" [] c = "o" -> "O" [] c = "r" -> "R" [] c = "t" -> "T"
      [] c = "u" -> "U" [] c = "w" -> "W" [] OTHER -> c

\* `str::to_uppercase`
to_uppercase(s) == [i \in 1..Len(s) |-> UpperChar(s[i])]

\* the `match` of both dispatchers: the directive of an exactly spelled
\* level, "" for any other string
LevelDirective(level) ==
    CASE level = <<"T", "R", "A", "C", "E">> -> "/LT"
      [] level = <<"D", "E", "B", "U", "G">> -> "/LD"
      [] level = <<"I", "N", "F", "O">> -> "/LI"
      [] level = <<"W", "A", "R", "N">> -> "/LW"
      [] level = <<"E", "R", "R", "O", "R">> -> "/LE"
      [] OTHER -> ""

LevelStrings ==
    { <<"D", "E", "B", "U", "G">>, <<"d", "e", "b", "u", "g">>,
      <<"D", "e", "b", "u", "g">>, <<"T", "R", "A", "C", "E">>,
      <<"i", "n", "f", "o">>, <<"L", "O", "U", "D">>, <<>> }

(***************************************************************************)
(* Server commands.                                                        *)
(***************************************************************************)
Absent(default) == [set |-> FALSE, v |-> default]
Given(x) == [set |-> TRUE, v |-> x]

Cmd(name, nested) ==
    [command |-> name, nested |-> nested,
     start_time |-> Absent(""), end_time |-> Absent(""),
     active_period |-> Absent(0), inactive_period |-> Absent(0),
     level |-> Absent(<<>>), log_level |-> Absent(<<>>),
     value |-> Absent(""), log_filter |-> Absent(""),
     node_command |-> Absent(""), sequence |-> Absent(0)]

StartFields == {Absent(""), Given("bad"), Given(ToString(T0))}
EndFields == {Absent(""), Given("bad"), Given(ToString(T0 + 3600))}
PeriodFields == {Absent(0)} \cup {Given(p) : p \in Periods}
LevelFields == {Absent(<<>>)} \cup {Given(l) : l \in LevelStrings}
FilterFields == {Absent(""), Given(""), Given("f")}
ValueFields == {Absent(""), Given("g")}

SetUpdateIntervalCommands ==
    {[Cmd("set_update_interval", n) EXCEPT
         !.start_time = s, !.end_time = e, !.active_period = a, !.inactive_period = i] :
       n \in BOOLEAN, s \in StartFields, e \in EndFields,
       a \in PeriodFields, i \in PeriodFields}

SetLogLevelCommands ==
    {[Cmd("set_log_level", n) EXCEPT !.level = l, !.log_level = ll] :
       n \in BOOLEAN, l \in LevelFields, ll \in LevelFields}

SetFilterCommands ==
    {[Cmd(name, n) EXCEPT !.log_filter = f, !.value = v] :
       name \in {"set_log_filter", "set_filter"}, n \in BOOLEAN,
       f \in FilterFields, v \in ValueFields}

\* an object has one "command" key: the node command can be given under
\* that name only inside "parameters"
RunCommands ==
    {c \in {[Cmd("run_command", n) EXCEPT !.node_command = nc, !.value = v] :
              n \in BOOLEAN, nc \in {Absent(""), Given("/X")},
              v \in {Absent(""), Given("/Y")}} :
       c.nested \/ ~c.node_command.set}

MeasurementCommands ==
    {[Cmd("start_measurement", n) EXCEPT !.sequence = s] :
       n \in BOOLEAN, s \in {Absent(0), Given(0), Given(3)}}

PlainCommands ==
    {Cmd(name, n) : name \in {"update_node", "update_probe", "reboot_probe", "bogus"},
                    n \in BOOLEAN}

Commands ==
    SetUpdateIntervalCommands \cup SetLogLevelCommands \cup SetFilterCommands
      \cup RunCommands \cup MeasurementCommands \cup PlainCommands

\* what one command did
Effect(result, send, reboot) ==
    [result |-> result, send |-> send, reboot |-> reboot,
     filter |-> filter_string, upload |-> upload_interval,
     schedule |-> update_interval, computed |-> computed, spawn |-> <<>>]

NoComputation ==
    [fn |-> "none", now |-> 0, schedule |-> DefaultUpdateInterval, default |-> 0,
     value |-> 0]

(***************************************************************************)
(* command_executor.rs: execute_command.                                   *)
(***************************************************************************)
\* a field as CommandParameters sees it: `#[serde(default)]`
Param(f) == f.v

\* `serde_json::from_value(command.parameters).unwrap_or_else(..)`: the
\* fields are read from the value under "parameters"; fields next to the
\* command name are unknown to `Command` and ignored, `parameters` is then
\* Null and every parameter takes its default
CeParameters(c) == IF c.nested THEN c ELSE Cmd(c.command, TRUE)

\* the Option<DateTime> of a timestamp parameter
CeTime(s) == IF s # "" THEN (IF ParseRfc3339(s) # -1 THEN ParseRfc3339(s) ELSE None) ELSE None

\* the UploadSchedule that set_update_interval builds
CeSchedule(p) ==
    [start_time |-> CeTime(Param(p.start_time)),
     end_time |-> CeTime(Param(p.end_time)),
     active_period |-> IF Param(p.active_period) > 0 THEN Param(p.active_period)
                                                    ELSE Param(p.inactive_period),
     inactive_period |-> IF Param(p.inactive_period) > 0 THEN Param(p.inactive_period)
                                                        ELSE Param(p.active_period)]

CeSetUpdateInterval(p) ==
    IF Param(p.active_period) = 0 /\ Param(p.inactive_period) = 0
      THEN Effect("ok", <<>>, FALSE)
      ELSE [Effect("ok", <<>>, FALSE) EXCEPT
              !.upload = current_interval(CeSchedule(p), now),
              !.computed = [fn |-> "current_interval", now |-> now,
                            schedule |-> CeSchedule(p),
                            default |-> upload_interval_seconds,
                            value |-> current_interval(CeSchedule(p), now)]]

CeLevel(p) == IF Param(p.log_level) # <<>> THEN Param(p.log_level) ELSE Param(p.level)

CeSetLogLevel(p) ==
    IF LevelDirective(to_uppercase(CeLevel(p))) = ""
      THEN Effect("ok", <<>>, FALSE)
      ELSE Effect("ok", <<LevelDirective(to_uppercase(CeLevel(p)))>>, FALSE)

CeSetLogFilter(p) ==
    [Effect("ok", <<>>, FALSE) EXCEPT
       !.filter = IF Param(p.log_filter) # "" THEN Param(p.log_filter)
                                              ELSE Param(p.value)]

CeRunCommand(p) ==
    IF Param(p.node_command) # "" THEN Effect("ok", <<Param(p.node_command)>>, FALSE)
    ELSE IF Param(p.value) # "" THEN Effect("ok", <<Param(p.value)>>, FALSE)
    ELSE Effect("ok", <<>>, FALSE)

CeRebootProbe(ok) == Effect(IF ok THEN "ok" ELSE "err", <<>>, TRUE)

\* a measurement started whatever the sequence number is
CeStartMeasurementUnchecked(p) ==
    Effect("ok", <<"/M_" \o ToString(Param(p.sequence)) \o "_">>, FALSE)

CeStartMeasurement(p) ==
    IF Param(p.sequence) = 0
      THEN Effect("ok", <<>>, FALSE)
      ELSE Effect("ok", <<"/M_" \o ToString(Param(p.sequence)) \o "_">>, FALSE)

\* the `match command.command.as_str()`
CeEffect(c, ok) ==
    CASE c.command = "set_update_interval" -> CeSetUpdateInterval(CeParameters(c))
      [] c.command = "set_log_level" -> CeSetLogLevel(CeParameters(c))
      [] c.command = "set_log_filter" -> CeSetLogFilter(CeParameters(c))
      [] c.command = "run_command" -> CeRunCommand(CeParameters(c))
      [] c.command = "update_node" -> Effect("ok", <<>>, FALSE)
      [] c.command = "update_probe" -> Effect("ok", <<>>, FALSE)
      [] c.command = "reboot_probe" -> CeRebootProbe(ok)
      [] c.command = "start_measurement" -> CeStartMeasurement(CeParameters(c))
      [] OTHER -> Effect("ok", <<>>, FALSE)

(***************************************************************************)
(* commands.rs: execute_command.                                           *)
(***************************************************************************)
\* `#[serde(flatten)] payload`: the keys next to the command name; fields
\* under "parameters" are not fields of the payload
OldPayload(c) == IF c.nested THEN Cmd(c.command, FALSE) ELSE c

\* send_usb_command: write_all on the port, Err without a port
OldSend(text, ok) ==
    IF serial_tx /\ ok THEN Effect("ok", <<text \o "\r\n">>, FALSE)
                       ELSE Effect("err", <<>>, FALSE)

OldSetUpdateInterval(o) ==
    IF ~(o.start_time.set /\ o.end_time.set /\ o.active_period.set
           /\ o.inactive_period.set)
      THEN Effect("err", <<>>, FALSE)
    ELSE IF ParseRfc3339(o.start_time.v) = -1 \/ ParseRfc3339(o.end_time.v) = -1
      THEN Effect("err", <<>>, FALSE)
    ELSE [Effect("ok", <<>>, FALSE) EXCEPT
            !.schedule = [update_interval EXCEPT
                            !.start_time = ParseRfc3339(o.start_time.v),
                            !.end_time = ParseRfc3339(o.end_time.v),
                            !.active_period = o.active_period.v,
                            !.inactive_period = o.inactive_period.v]]

OldSetLogLevel(o, ok) ==
    IF ~o.level.set \/ LevelDirective(o.level.v) = ""
      THEN Effect("err", <<>>, FALSE)
      ELSE OldSend(LevelDirective(o.level.v), ok)

OldSetFilter(o) ==
    IF ~o.value.set THEN Effect("err", <<>>, FALSE)
                    ELSE [Effect("ok", <<>>, FALSE) EXCEPT !.filter = o.value.v]

OldRunCommand(o, ok) ==
    IF ~o.value.set THEN Effect("err", <<>>, FALSE) ELSE OldSend(o.value.v, ok)

\* `tokio::spawn(.. node_update::check_and_update ..)`
OldSpawn(kind) == [Effect("ok", <<>>, FALSE) EXCEPT !.spawn = <<kind>>]

OldRebootProbe(ok) == Effect(IF ok THEN "ok" ELSE "err", <<>>, ok)

\* the `match cmd.command.as_str()`
OldEffect(c, ok) ==
    CASE c.command = "set_update_interval" -> OldSetUpdateInterval(OldPayload(c))
      [] c.command = "set_log_level" -> OldSetLogLevel(OldPayload(c), ok)
      [] c.command = "set_filter" -> OldSetFilter(OldPayload(c))
      [] c.command = "run_command" -> OldRunCommand(OldPayload(c), ok)
      [] c.command = "update_node" -> OldSpawn("node")
      [] c.command = "update_probe" -> OldSpawn("probe")
      [] c.command = "reboot_probe" -> OldRebootProbe(ok)
      [] OTHER -> Effect("ok", <<>>, FALSE)

(***************************************************************************)
(* The dispatchers as actions.                                             *)
(***************************************************************************)
Executed(dispatcher, c, ok, e) ==
    [dispatcher |-> dispatcher, cmd |-> c, io |-> ok, port |-> serial_tx,
     result |-> e.result, sent |-> e.send, rebooted |-> e.reboot,
     spawned |-> e.spawn,
     before |-> [filter |-> filter_string, upload |-> upload_interval,
                 schedule |-> update_interval, queue |-> cmdQueue,
                 portOut |-> portOut]]

NoCommand ==
    [dispatcher |-> "none", cmd |-> Cmd("", FALSE), io |-> TRUE, port |-> FALSE,
     result |-> "none", sent |-> <<>>, rebooted |-> FALSE, spawned |-> <<>>,
     before |-> [filter |-> "", upload |-> 0, schedule |-> DefaultUpdateInterval,
                 queue |-> <<>>, portOut |-> <<>>]]

\* main.rs: the filter starts as the configured `filter_string`
ConfigFilters == {"", "g"}

CmdStartWith(t, interval, port, f) ==
    /\ now = t
    /\ upload_interval_seconds = interval
    /\ upload_interval = interval
    /\ update_interval = DefaultUpdateInterval
    /\ filter_string = f
    /\ serial_tx = port
    /\ portOut = <<>>
    /\ executed = 0
    /\ lastCmd = NoCommand
    /\ computed = NoComputation

CmdStart(t, interval, port) == CmdStartWith(t, interval, port, "")

CmdIdle == CmdStart(0, 60, FALSE)

Apply(e) ==
    /\ filter_string' = e.filter
    /\ upload_interval' = e.upload
    /\ update_interval' = e.schedule
    /\ computed' = e.computed
    /\ executed' = executed + 1
    /\ UNCHANGED <<now, upload_interval_seconds, serial_tx>>

\* command_executor.rs execute_command; a directive is sent into the
\* command channel of the serial port manager (UsbHandle::send_command),
\* which blocks while the channel is full
CeExecute(c, ok) ==
    /\ executed < MaxCommands
    /\ Len(cmdQueue) + Len(CeEffect(c, ok).send) <= CommandChannelCapacity
    /\ Apply(CeEffect(c, ok))
    /\ cmdQueue' = cmdQueue \o CeEffect(c, ok).send
    /\ lastCmd' = Executed("command_executor", c, ok, CeEffect(c, ok))
    /\ UNCHANGED portOut
    /\ usbCmds' = usbCmds \o CeEffect(c, ok).send
    /\ UNCHANGED <<usbPc, backoff_ms, sleepMs, command, msgs, wire, attempts,
                   openFails, usbLines, connections>>
    /\ UNCHANGED <<bufVars, updVars, lockVars, muxVars, pollVars>>

\* commands.rs execute_command; a directive is written to the port directly
OldExecute(c, ok) ==
    /\ executed < MaxCommands
    /\ Apply(OldEffect(c, ok))
    /\ portOut' = portOut \o OldEffect(c, ok).send
    /\ lastCmd' = Executed("commands", c, ok, OldEffect(c, ok))
    /\ UNCHANGED notCmd

\* log_collector.rs connect_and_read: on every connect the collector stores
\* a second handle of the port in serial_tx, or None when opening it failed
SerialPortChange(port) ==
    /\ serial_tx' = port
    /\ UNCHANGED <<now, upload_interval_seconds, upload_interval, update_interval,
                   filter_string, portOut, executed, lastCmd, computed>>
    /\ UNCHANGED notCmd

\* time passes
Tick(t) ==
    /\ t > now
    /\ now' = t
    /\ UNCHANGED <<upload_interval_seconds, upload_interval, update_interval,
                   filter_string, serial_tx, portOut, executed, lastCmd, computed>>
    /\ UNCHANGED notCmd

\* telemetry_sync.rs run: the sync loop computes its next sleep
SyncReadsInterval ==
    /\ computed' = [fn |-> "get_current_interval", now |-> now,
                    schedule |-> update_interval,
                    default |-> update_interval.default_interval,
                    value |-> get_current_interval(update_interval, now)]
    /\ UNCHANGED <<now, upload_interval_seconds, upload_interval, update_interval,
                   filter_string, serial_tx, portOut, executed, lastCmd>>
    /\ UNCHANGED notCmd

NextCmd ==
    \/ \E c \in Commands, ok \in BOOLEAN : CeExecute(c, ok)
    \/ \E c \in Commands, ok \in BOOLEAN : OldExecute(c, ok)
    \/ \E port \in BOOLEAN : SerialPortChange(port)
    \/ \E t \in Times : Tick(t)
    \/ SyncReadsInterval

(***************************************************************************)
(* telemetry_sync.rs: the sync loop. run() computes the interval, sleeps   *)
(* and calls sync_telemetry; whatever sync_telemetry returns, the loop     *)
(* goes back to computing the interval.                                    *)
(***************************************************************************)
\* the commands a response carries in the model: a set_filter that succeeds
\* and a set_filter that fails (no `value`)
ResponseCommands ==
    { [Cmd("set_filter", FALSE) EXCEPT !.value = Given("g")],
      Cmd("set_filter", FALSE) }

ResponseBodies ==
    {NoBody} \cup {[parses |-> TRUE, commands |-> cs] :
                     cs \in UNION {[1..k -> ResponseCommands] : k \in 0..MaxBody}}

\* run(): sync_telemetry returned, Ok or Err (the error is logged); the next
\* sleep is `interval.get_current_interval()` of the schedule
EndCycle(c, ok, schedule) ==
    [c EXCEPT !.ended = TRUE, !.ok = ok,
              !.failures = IF ok THEN 0 ELSE last.failures + 1,
              !.wait = get_current_interval(schedule, now)]

StartedCycle(result, status, body) ==
    [NoCycle EXCEPT !.result = result, !.status = status, !.S = logs,
                    !.A = appended, !.body = body, !.failures = last.failures]

\* sync_telemetry, up to the POST: an empty buffer ends the cycle with
\* Ok(()) and no request; otherwise the buffer is drained into `logs` and
\* the request is sent
SyncSnapshot ==
    /\ syncPc = "sleep"
    /\ cycles < MaxCycles
    /\ cycles' = cycles + 1
    /\ IF Len(entries) = 0
         THEN /\ last' = EndCycle([NoCycle EXCEPT !.result = "empty",
                                                  !.after = entries],
                                  TRUE, update_interval)
              /\ UNCHANGED <<entries, syncPc, logs, drains, appended>>
         ELSE /\ logs' = entries
              /\ entries' = <<>>
              /\ drains' = drains + 1
              /\ appended' = <<>>
              /\ syncPc' = "post"
              /\ UNCHANGED last
    /\ UNCHANGED <<collector, decision, max_size, buffer, collectorPanic, commands, nextLine, pushed,
                   vecPushed>>
    /\ UNCHANGED notBuf

\* sync_telemetry after the POST returned a response with `status` and
\* `body`: on 200 the commands of a body that parses are taken for
\* execution; on any other status the snapshot is pushed back and the cycle
\* ends with an error
SyncResponse(status, body) ==
    /\ syncPc = "post"
    /\ entries' = IF StatusIsSuccess(status)
                    THEN entries
                    ELSE Requeue(entries, logs, max_size)
    /\ commands' = IF StatusIsSuccess(status) THEN body.commands ELSE <<>>
    /\ syncPc' = IF commands' # <<>> THEN "dispatch" ELSE "sleep"
    /\ last' = LET c == [StartedCycle("response", status, body) EXCEPT
                           !.after = entries',
                           !.requeued = ~StatusIsSuccess(status)]
               IN  IF commands' # <<>>
                     THEN c
                     ELSE EndCycle(c, StatusIsSuccess(status), update_interval)
    /\ logs' = <<>>
    /\ UNCHANGED <<collector, decision, max_size, buffer, collectorPanic, nextLine, cycles, pushed,
                   vecPushed, drains, appended>>
    /\ UNCHANGED notBuf

\* sync_telemetry when `.send().await` fails: `?` returns the error
SyncTransportError ==
    /\ syncPc = "post"
    /\ last' = EndCycle([StartedCycle("transport", 0, NoBody) EXCEPT
                           !.after = entries],
                        FALSE, update_interval)
    /\ logs' = <<>>
    /\ syncPc' = "sleep"
    /\ UNCHANGED <<collector, decision, max_size, entries, buffer, collectorPanic, commands, nextLine,
                   cycles, pushed, vecPushed, drains, appended>>
    /\ UNCHANGED notBuf

\* `for cmd in commands { if let Err(e) = commands::execute_command(..).await
\* { error!(..) } }`: one command is executed; an error is logged and the
\* loop goes on. `ok` is the outcome of the command's port write or spawn.
SyncDispatch(ok) ==
    /\ syncPc = "dispatch"
    /\ commands # <<>>
    /\ Apply(OldEffect(Head(commands), ok))
    /\ portOut' = portOut \o OldEffect(Head(commands), ok).send
    /\ lastCmd' = Executed("commands", Head(commands), ok,
                           OldEffect(Head(commands), ok))
    /\ commands' = Tail(commands)
    /\ syncPc' = IF commands' # <<>> THEN "dispatch" ELSE "sleep"
    /\ last' = LET c == [last EXCEPT
                           !.dispatched = Append(@, Head(commands)),
                           !.results = Append(@, OldEffect(Head(commands), ok).result)]
               IN  IF commands' # <<>>
                     THEN c
                     ELSE EndCycle(c, TRUE, OldEffect(Head(commands), ok).schedule)
    /\ UNCHANGED <<collector, decision, max_size, entries, buffer, collectorPanic, logs, nextLine,
                   cycles, pushed, vecPushed, drains, appended>>
    /\ UNCHANGED <<usbVars, updVars, lockVars, muxVars, pollVars>>

NextBuf ==
    \/ \E text \in LineTexts : CollectorLine(text)
    \/ \E text \in LineTexts : UsbCollectorLine(text)
    \/ SyncSnapshot
    \/ \E status \in StatusCodes, body \in ResponseBodies : SyncResponse(status, body)
    \/ SyncTransportError
    \/ \E ok \in BOOLEAN : SyncDispatch(ok)

(***************************************************************************)
(* The locks of the shared state. Each task is followed from one `.await`  *)
(* to the next, with the guards it holds: the collector (usb_collector.rs  *)
(* or log_collector.rs) and the sync loop (telemetry_sync.rs, which        *)
(* dispatches through commands.rs). A task that awaits a lock stays where  *)
(* it is until the lock is free.                                           *)
(***************************************************************************)
Tasks == {"collector", "sync"}

\* the buffer, the filter, the schedule, and the port handle of commands.rs
Locks == {"log_buffer", "log_filter", "update_interval", "serial_tx"}

\* the command names that take a different path through execute_command
LockCommandNames == {"set_update_interval", "set_filter", "run_command", "update_node"}

LockResponses ==
    UNION { [1..n -> LockCommandNames] : n \in 0..MaxLockCommands }

LockStart ==
    /\ lockPc = [t \in Tasks |-> IF t = "collector" THEN "open" ELSE "interval_lock"]
    /\ lockHeld = [t \in Tasks |-> {}]
    /\ lockLen = 0
    /\ lockLogs = 0
    /\ lockCommands = <<>>

LockIdle == LockStart

\* `.lock().await`, `.read().await`, `.write().await`: the lock is free
Free(l) == \A t \in Tasks : l \notin lockHeld[t]

\* the task moves on without touching a guard
Goto(t, next) ==
    /\ lockPc' = [lockPc EXCEPT ![t] = next]
    /\ UNCHANGED lockHeld

\* the task acquires the lock it awaits
Acquire(t, l, next) ==
    /\ Free(l)
    /\ lockHeld' = [lockHeld EXCEPT ![t] = @ \cup {l}]
    /\ lockPc' = [lockPc EXCEPT ![t] = next]

\* the guard goes out of scope (or is dropped) and the task moves on
Release(t, l, next) ==
    /\ lockHeld' = [lockHeld EXCEPT ![t] = @ \ {l}]
    /\ lockPc' = [lockPc EXCEPT ![t] = next]

\* a guard that stays alive
KeepGuard(h) == h

\* usb_collector.rs: `drop(filter)`
DropFilter(h) == h \ {"log_filter"}

\* LogBuffer::push / `buf.remove(0); buf.push(entry)`: the length after a push
LenAfterPush(n) == IF n >= MaxLockLen THEN MaxLockLen ELSE n + 1

\* ---- usb_collector.rs ----
\* run / connect_and_read: the port is opened (no `.await`)
UcOpen(ok) ==
    /\ collector = "usb_collector"
    /\ lockPc["collector"] = "open"
    /\ Goto("collector", IF ok THEN "next_line" ELSE "backoff")
    /\ UNCHANGED <<lockLen, lockLogs, lockCommands>>
    /\ UNCHANGED notLock

\* run: `sleep(Duration::from_millis(backoff_ms)).await` is over
UcBackoffDone ==
    /\ collector = "usb_collector"
    /\ lockPc["collector"] = "backoff"
    /\ Goto("collector", "open")
    /\ UNCHANGED <<lockLen, lockLogs, lockCommands>>
    /\ UNCHANGED notLock

\* `lines.next_line().await?` returns a line, end of stream or an error
UcNextLine(r) ==
    /\ collector = "usb_collector"
    /\ lockPc["collector"] = "next_line"
    /\ Goto("collector", CASE r = "line" -> "filter_read"
                           [] r = "eof" -> "open"
                           [] r = "error" -> "backoff")
    /\ UNCHANGED <<lockLen, lockLogs, lockCommands>>
    /\ UNCHANGED notLock

\* `let filter = filter_string.read().await`
UcFilterRead ==
    /\ collector = "usb_collector"
    /\ lockPc["collector"] = "filter_read"
    /\ Acquire("collector", "log_filter", "filter_guard")
    /\ UNCHANGED <<lockLen, lockLogs, lockCommands>>
    /\ UNCHANGED notLock

\* the filter test: `continue` ends the scope of the guard, a line that
\* passes goes on to `drop(filter)` and `buffer.write().await`
UcFilterCheck(pass) ==
    /\ collector = "usb_collector"
    /\ lockPc["collector"] = "filter_guard"
    /\ IF pass
         THEN /\ lockHeld' = [lockHeld EXCEPT !["collector"] = DropFilter(@)]
              /\ lockPc' = [lockPc EXCEPT !["collector"] = "buffer_write"]
         ELSE Release("collector", "log_filter", "next_line")
    /\ UNCHANGED <<lockLen, lockLogs, lockCommands>>
    /\ UNCHANGED notLock

\* `let mut buf = buffer.write().await`
UcBufferWrite ==
    /\ collector = "usb_collector"
    /\ lockPc["collector"] = "buffer_write"
    /\ Acquire("collector", "log_buffer", "buffer_guard")
    /\ UNCHANGED <<lockLen, lockLogs, lockCommands>>
    /\ UNCHANGED notLock

\* the push; `buf` (and a `filter` still alive) go out of scope at the end
\* of the loop body
UcPush ==
    /\ collector = "usb_collector"
    /\ lockPc["collector"] = "buffer_guard"
    /\ lockLen' = LenAfterPush(lockLen)
    /\ lockHeld' = [lockHeld EXCEPT !["collector"] = {}]
    /\ lockPc' = [lockPc EXCEPT !["collector"] = "next_line"]
    /\ UNCHANGED <<lockLogs, lockCommands>>
    /\ UNCHANGED notLock

\* ---- log_collector.rs ----
\* connect_and_read: the port is opened (no `.await`)
LcOpen(ok) ==
    /\ collector = "log_collector"
    /\ lockPc["collector"] = "open"
    /\ Goto("collector", IF ok THEN "serial_tx_lock" ELSE "backoff")
    /\ UNCHANGED <<lockLen, lockLogs, lockCommands>>
    /\ UNCHANGED notLock

\* run: `sleep(backoff).await` is over
LcBackoffDone ==
    /\ collector = "log_collector"
    /\ lockPc["collector"] = "backoff"
    /\ Goto("collector", "open")
    /\ UNCHANGED <<lockLen, lockLogs, lockCommands>>
    /\ UNCHANGED notLock

\* `let mut tx = serial_tx.lock().await`
LcSerialLock ==
    /\ collector = "log_collector"
    /\ lockPc["collector"] = "serial_tx_lock"
    /\ Acquire("collector", "serial_tx", "serial_tx_guard")
    /\ UNCHANGED <<lockLen, lockLogs, lockCommands>>
    /\ UNCHANGED notLock

\* `*tx = port_clone` and the end of the block
LcSerialSet ==
    /\ collector = "log_collector"
    /\ lockPc["collector"] = "serial_tx_guard"
    /\ Release("collector", "serial_tx", "next_line")
    /\ UNCHANGED <<lockLen, lockLogs, lockCommands>>
    /\ UNCHANGED notLock

\* `while let Ok(Some(line)) = lines.next_line().await`: a line with a level
\* tag, a line without one, or the end of the loop
LcNextLine(r) ==
    /\ collector = "log_collector"
    /\ lockPc["collector"] = "next_line"
    /\ Goto("collector", CASE r = "line" -> "filter_lock"
                           [] r = "invalid" -> "next_line"
                           [] r = "end" -> "open")
    /\ UNCHANGED <<lockLen, lockLogs, lockCommands>>
    /\ UNCHANGED notLock

\* `log_filter.lock().await`
LcFilterLock ==
    /\ collector = "log_collector"
    /\ lockPc["collector"] = "filter_lock"
    /\ Acquire("collector", "log_filter", "filter_guard")
    /\ UNCHANGED <<lockLen, lockLogs, lockCommands>>
    /\ UNCHANGED notLock

\* `.clone()`: the temporary guard is dropped at the end of the statement
LcFilterClone(should_buffer) ==
    /\ collector = "log_collector"
    /\ lockPc["collector"] = "filter_guard"
    /\ Release("collector", "log_filter",
               IF should_buffer THEN "buffer_lock" ELSE "next_line")
    /\ UNCHANGED <<lockLen, lockLogs, lockCommands>>
    /\ UNCHANGED notLock

\* `let mut buffer = log_buffer.lock().await`
LcBufferLock ==
    /\ collector = "log_collector"
    /\ lockPc["collector"] = "buffer_lock"
    /\ Acquire("collector", "log_buffer", "buffer_guard")
    /\ UNCHANGED <<lockLen, lockLogs, lockCommands>>
    /\ UNCHANGED notLock

\* `buffer.push(entry)` and the end of the block
LcPush ==
    /\ collector = "log_collector"
    /\ lockPc["collector"] = "buffer_guard"
    /\ lockLen' = LenAfterPush(lockLen)
    /\ Release("collector", "log_buffer", "next_line")
    /\ UNCHANGED <<lockLogs, lockCommands>>
    /\ UNCHANGED notLock

\* ---- telemetry_sync.rs ----
\* run: `let interval = update_interval.lock().await`
TsIntervalLock ==
    /\ lockPc["sync"] = "interval_lock"
    /\ Acquire("sync", "update_interval", "interval_guard")
    /\ UNCHANGED <<lockLen, lockLogs, lockCommands>>
    /\ UNCHANGED notLock

\* `interval.get_current_interval()` and the end of the block
TsIntervalRead ==
    /\ lockPc["sync"] = "interval_guard"
    /\ Release("sync", "update_interval", "sleep")
    /\ UNCHANGED <<lockLen, lockLogs, lockCommands>>
    /\ UNCHANGED notLock

\* `sleep(Duration::from_secs(interval_secs)).await` is over
TsSleepDone ==
    /\ lockPc["sync"] = "sleep"
    /\ Goto("sync", "buffer_lock")
    /\ UNCHANGED <<lockLen, lockLogs, lockCommands>>
    /\ UNCHANGED notLock

\* sync_telemetry: `let mut buffer = log_buffer.lock().await`
TsBufferLock ==
    /\ lockPc["sync"] = "buffer_lock"
    /\ Acquire("sync", "log_buffer", "buffer_guard")
    /\ UNCHANGED <<lockLen, lockLogs, lockCommands>>
    /\ UNCHANGED notLock

\* the empty buffer returns, otherwise `buffer.drain()`; the block ends
TsDrain ==
    /\ lockPc["sync"] = "buffer_guard"
    /\ Release("sync", "log_buffer", IF lockLen = 0 THEN "interval_lock" ELSE "send")
    /\ lockLogs' = lockLen
    /\ lockLen' = 0
    /\ UNCHANGED lockCommands
    /\ UNCHANGED notLock

\* `.send().await` fails, or answers with a status and (for 200) a body
TsResponse(r, body) ==
    /\ lockPc["sync"] = "send"
    /\ r # "200" => body = <<>>
    /\ Goto("sync", CASE r = "error" -> "interval_lock"
                      [] r = "200" -> "dispatch"
                      [] r = "500" -> "requeue_lock")
    /\ lockCommands' = body
    /\ lockLogs' = IF r = "500" THEN lockLogs ELSE 0
    /\ UNCHANGED lockLen
    /\ UNCHANGED notLock

\* the failure branch: `let mut buffer = log_buffer.lock().await`
TsRequeueLock ==
    /\ lockPc["sync"] = "requeue_lock"
    /\ Acquire("sync", "log_buffer", "requeue_guard")
    /\ UNCHANGED <<lockLen, lockLogs, lockCommands>>
    /\ UNCHANGED notLock

\* the pushes and `bail!`: the guard is dropped when the function returns
TsRequeue ==
    /\ lockPc["sync"] = "requeue_guard"
    /\ Release("sync", "log_buffer", "interval_lock")
    /\ lockLen' = IF lockLen + lockLogs >= MaxLockLen THEN MaxLockLen
                  ELSE lockLen + lockLogs
    /\ lockLogs' = 0
    /\ UNCHANGED lockCommands
    /\ UNCHANGED notLock

\* `for cmd in commands`: the loop is over
TsDispatchDone ==
    /\ lockPc["sync"] = "dispatch"
    /\ lockCommands = <<>>
    /\ Goto("sync", "interval_lock")
    /\ UNCHANGED <<lockLen, lockLogs, lockCommands>>
    /\ UNCHANGED notLock

\* ---- commands.rs, called by sync_telemetry ----
\* execute_command reaches the `.await` of the next command: a lock for
\* set_update_interval, set_filter and run_command (send_usb_command); the
\* payload of the first two may be rejected before (`?`); update_node only
\* spawns a task
CmExecute(valid) ==
    /\ lockPc["sync"] = "dispatch"
    /\ lockCommands # <<>>
    /\ LET name == Head(lockCommands)
           awaits == valid /\ name # "update_node"
       IN  /\ Goto("sync", CASE ~awaits -> "dispatch"
                             [] awaits /\ name = "set_update_interval" -> "cmd_interval_lock"
                             [] awaits /\ name = "set_filter" -> "cmd_filter_lock"
                             [] awaits /\ name = "run_command" -> "cmd_serial_tx_lock")
           /\ lockCommands' = IF awaits THEN lockCommands ELSE Tail(lockCommands)
    /\ UNCHANGED <<lockLen, lockLogs>>
    /\ UNCHANGED notLock

\* `let mut interval = update_interval.lock().await`
CmIntervalLock ==
    /\ lockPc["sync"] = "cmd_interval_lock"
    /\ Acquire("sync", "update_interval", "cmd_interval_guard")
    /\ UNCHANGED <<lockLen, lockLogs, lockCommands>>
    /\ UNCHANGED notLock

\* the four assignments; the guard is dropped at the end of the match arm
CmIntervalSet ==
    /\ lockPc["sync"] = "cmd_interval_guard"
    /\ Release("sync", "update_interval", "dispatch")
    /\ lockCommands' = Tail(lockCommands)
    /\ UNCHANGED <<lockLen, lockLogs>>
    /\ UNCHANGED notLock

\* `let mut filter = log_filter.lock().await`
CmFilterLock ==
    /\ lockPc["sync"] = "cmd_filter_lock"
    /\ Acquire("sync", "log_filter", "cmd_filter_guard")
    /\ UNCHANGED <<lockLen, lockLogs, lockCommands>>
    /\ UNCHANGED notLock

\* `*filter = value.to_string()`; the guard is dropped at the end of the arm
CmFilterSet ==
    /\ lockPc["sync"] = "cmd_filter_guard"
    /\ Release("sync", "log_filter", "dispatch")
    /\ lockCommands' = Tail(lockCommands)
    /\ UNCHANGED <<lockLen, lockLogs>>
    /\ UNCHANGED notLock

\* send_usb_command: `let mut tx = serial_tx.lock().await`
CmSerialLock ==
    /\ lockPc["sync"] = "cmd_serial_tx_lock"
    /\ Acquire("sync", "serial_tx", "cmd_serial_tx_guard")
    /\ UNCHANGED <<lockLen, lockLogs, lockCommands>>
    /\ UNCHANGED notLock

\* with a port the task goes on to `port.write_all(..).await` under the
\* guard; without one it bails out
CmSerialPort(some) ==
    /\ lockPc["sync"] = "cmd_serial_tx_guard"
    /\ IF some
         THEN /\ Goto("sync", "write_all")
              /\ UNCHANGED lockCommands
         ELSE /\ Release("sync", "serial_tx", "dispatch")
              /\ lockCommands' = Tail(lockCommands)
    /\ UNCHANGED <<lockLen, lockLogs>>
    /\ UNCHANGED notLock

\* `write_all` returns; the guard is dropped when send_usb_command returns
CmWriteAllDone ==
    /\ lockPc["sync"] = "write_all"
    /\ Release("sync", "serial_tx", "dispatch")
    /\ lockCommands' = Tail(lockCommands)
    /\ UNCHANGED <<lockLen, lockLogs>>
    /\ UNCHANGED notLock

NextLock ==
    \/ \E ok \in BOOLEAN : UcOpen(ok)
    \/ UcBackoffDone
    \/ \E r \in {"line", "eof", "error"} : UcNextLine(r)
    \/ UcFilterRead
    \/ \E pass \in BOOLEAN : UcFilterCheck(pass)
    \/ UcBufferWrite
    \/ UcPush
    \/ \E ok \in BOOLEAN : LcOpen(ok)
    \/ LcBackoffDone
    \/ LcSerialLock
    \/ LcSerialSet
    \/ \E r \in {"line", "invalid", "end"} : LcNextLine(r)
    \/ LcFilterLock
    \/ \E should_buffer \in BOOLEAN : LcFilterClone(should_buffer)
    \/ LcBufferLock
    \/ LcPush
    \/ TsIntervalLock
    \/ TsIntervalRead
    \/ TsSleepDone
    \/ TsBufferLock
    \/ TsDrain
    \/ \E r \in {"error", "200", "500"}, body \in LockResponses : TsResponse(r, body)
    \/ TsRequeueLock
    \/ TsRequeue
    \/ TsDispatchDone
    \/ \E valid \in BOOLEAN : CmExecute(valid)
    \/ CmIntervalLock
    \/ CmIntervalSet
    \/ CmFilterLock
    \/ CmFilterSet
    \/ CmSerialLock
    \/ \E some \in BOOLEAN : CmSerialPort(some)
    \/ CmWriteAllDone

(***************************************************************************)
(* usb_manager.rs: the select! loop of connect_and_handle, byte by byte.   *)
(*                                                                         *)
(* The peer sends its lines one byte at a time. Every iteration of the     *)
(* loop creates a read_line future and a recv future and drops the one     *)
(* that did not complete. read_line moves the bytes it consumes into a     *)
(* buffer of its own and hands them to `line_buffer` only when the line is *)
(* complete: a read_line future that is dropped takes the bytes it has     *)
(* consumed with it.                                                       *)
(***************************************************************************)
PeerBytes == {"a", "b", "\n"}

MuxStart ==
    /\ muxPc = "connected"
    /\ rx = <<>>
    /\ read_buf = <<>>
    /\ peerLine = <<>>
    /\ owed = <<>>
    /\ muxQueue = <<>>
    /\ muxCommand = <<>>
    /\ lineBit = 0
    /\ wireBit = 0
    /\ cancelled = FALSE
    /\ intact = TRUE

MuxIdle == MuxStart

\* the index of the first newline of a sequence of bytes, 0 when it has none
FirstNewline(bytes) ==
    IF \E i \in 1..Len(bytes) : bytes[i] = "\n"
      THEN CHOOSE i \in 1..Len(bytes) :
              bytes[i] = "\n" /\ \A j \in 1..(i - 1) : bytes[j] # "\n"
      ELSE 0

\* read_line can return a line: a newline is among the bytes available
LineReady == FirstNewline(rx) > 0

\* recv can return a command
CommandReady == muxQueue # <<>>

\* a select! that polls the command branch first, every time
SelectBiased(branch, ready, otherReady) ==
    \/ branch = "command" /\ ready
    \/ branch = "read" /\ ready /\ ~otherReady

\* select! polls its branches in a random order: a branch that is ready can
\* complete first whether the other is ready or not
SelectCompletes(branch, ready, otherReady) == ready

\* the peer sends the next byte of its line
MuxPeerSends(b) ==
    /\ muxPc # "closed"
    /\ Len(rx) < MaxRx
    /\ b # "\n" => Len(peerLine) < MaxLineLen
    /\ rx' = rx \o <<b>>
    /\ peerLine' = IF b = "\n" THEN <<>> ELSE peerLine \o <<b>>
    /\ owed' = IF b = "\n" THEN owed \o <<peerLine>> ELSE owed
    /\ UNCHANGED <<muxPc, read_buf, muxQueue, muxCommand, lineBit, wireBit,
                   cancelled, intact>>
    /\ UNCHANGED notMux

\* select!: the read_line future is polled, consumes the bytes that are
\* there, finds no newline among them and stays pending
MuxReadPending ==
    /\ muxPc = "connected"
    /\ rx # <<>> /\ ~LineReady
    /\ read_buf' = read_buf \o rx
    /\ rx' = <<>>
    /\ UNCHANGED <<muxPc, peerLine, owed, muxQueue, muxCommand, lineBit, wireBit,
                   cancelled, intact>>
    /\ UNCHANGED notMux

\* select!: read_line returned Ok(n), n > 0: `line_buffer` holds the bytes
\* consumed by this future up to the newline; the trimmed line is forwarded
\* when it is not empty, and `line_buffer` is cleared
MuxReadLine ==
    /\ muxPc = "connected"
    /\ SelectCompletes("read", LineReady, CommandReady)
    /\ LET n == FirstNewline(rx)
           line_buffer == read_buf \o SubSeq(rx, 1, n)
       IN  /\ rx' = SubSeq(rx, n + 1, Len(rx))
           /\ intact' = (intact /\ TrimEnd(line_buffer) = Head(owed))
    /\ read_buf' = <<>>
    /\ owed' = Tail(owed)
    /\ lineBit' = 1 - lineBit
    /\ UNCHANGED <<muxPc, peerLine, muxQueue, muxCommand, wireBit, cancelled>>
    /\ UNCHANGED notMux

\* the connection is over: read_line returned Ok(0) or Err, or a write
\* failed; what was in flight is gone
MuxClosed ==
    /\ muxPc' = "closed"
    /\ rx' = <<>>
    /\ read_buf' = <<>>
    /\ peerLine' = <<>>
    /\ owed' = <<>>
    /\ muxCommand' = <<>>
    /\ UNCHANGED <<cancelled, intact>>

\* select!: read_line returned Ok(0) (break) or Err (return)
MuxReadEnd ==
    /\ muxPc = "connected"
    /\ MuxClosed
    /\ UNCHANGED <<muxQueue, lineBit, wireBit>>
    /\ UNCHANGED notMux

\* run() calls connect_and_handle again and the port opens
MuxReconnect ==
    /\ muxPc = "closed"
    /\ muxPc' = "connected"
    /\ UNCHANGED <<rx, read_buf, peerLine, owed, muxQueue, muxCommand, lineBit,
                   wireBit, cancelled, intact>>
    /\ UNCHANGED notMux

\* select!: recv returned a command; the read_line future of this iteration
\* is dropped with the bytes it holds, and write_all is awaited
MuxRecvCommand ==
    /\ muxPc = "connected"
    /\ SelectCompletes("command", CommandReady, LineReady)
    /\ muxCommand' = <<Head(muxQueue)>>
    /\ muxQueue' = Tail(muxQueue)
    /\ cancelled' = (cancelled \/ read_buf # <<>>)
    /\ read_buf' = <<>>
    /\ muxPc' = "writing"
    /\ UNCHANGED <<rx, peerLine, owed, lineBit, wireBit, intact>>
    /\ UNCHANGED notMux

\* write_all returns
MuxWriteAll(ok) ==
    /\ muxPc = "writing"
    /\ IF ok
         THEN /\ muxPc' = "flushing"
              /\ UNCHANGED <<rx, read_buf, peerLine, owed, muxCommand, cancelled, intact>>
         ELSE MuxClosed
    /\ UNCHANGED <<muxQueue, lineBit, wireBit>>
    /\ UNCHANGED notMux

\* flush returns; on Ok the command is on the wire and the loop goes back to
\* select!
MuxFlush(ok) ==
    /\ muxPc = "flushing"
    /\ IF ok
         THEN /\ muxPc' = "connected"
              /\ muxCommand' = <<>>
              /\ wireBit' = 1 - wireBit
              /\ UNCHANGED <<rx, read_buf, peerLine, owed, cancelled, intact>>
         ELSE /\ MuxClosed
              /\ UNCHANGED wireBit
    /\ UNCHANGED <<muxQueue, lineBit>>
    /\ UNCHANGED notMux

\* UsbHandle::send_command: the send completes when the channel has room
MuxSendCommand(c) ==
    /\ Len(muxQueue) < MaxMuxQueue
    /\ muxQueue' = muxQueue \o <<c>>
    /\ UNCHANGED <<muxPc, rx, read_buf, peerLine, owed, muxCommand, lineBit, wireBit,
                   cancelled, intact>>
    /\ UNCHANGED notMux

NextMux ==
    \/ \E b \in PeerBytes : MuxPeerSends(b)
    \/ MuxReadPending
    \/ MuxReadLine
    \/ MuxReadEnd
    \/ MuxReconnect
    \/ MuxRecvCommand
    \/ \E ok \in BOOLEAN : MuxWriteAll(ok)
    \/ \E ok \in BOOLEAN : MuxFlush(ok)
    \/ \E c \in UsbCommands : MuxSendCommand(c)

(***************************************************************************)
(* update_manager.rs: wait_for_bootloader_device, probe by probe.          *)
(***************************************************************************)
MAX_WAIT_SECONDS == 30
CHECK_INTERVAL_MS == 500

\* `let max_attempts = (MAX_WAIT_SECONDS * 1000) / CHECK_INTERVAL_MS`
max_attempts == (MAX_WAIT_SECONDS * 1000) \div CHECK_INTERVAL_MS

\* a loop variable that does not advance
SameAttempt(a) == a

\* `for attempt in 0..max_attempts`: the next value of the loop variable
NextAttempt(a) == a + 1

PollStart ==
    /\ pollPc = "probe"
    /\ attempt = 0

PollIdle == PollStart

\* one pass over /dev: a block device with the bootloader label is found
\* (`return Ok(device_path)`) or not; after a miss the loop sleeps, except
\* after its last pass, which ends the loop with the timeout error
PollProbe(found) ==
    /\ pollPc = "probe"
    /\ pollPc' = IF found THEN "found"
                 ELSE IF attempt < max_attempts - 1 THEN "sleep"
                 ELSE "timeout"
    /\ UNCHANGED attempt
    /\ UNCHANGED notPoll

\* `sleep(Duration::from_millis(CHECK_INTERVAL_MS)).await` is over and the
\* loop takes its next value
PollSleepDone ==
    /\ pollPc = "sleep"
    /\ attempt' = NextAttempt(attempt)
    /\ pollPc' = "probe"
    /\ UNCHANGED notPoll

NextPoll ==
    \/ \E found \in BOOLEAN : PollProbe(found)
    \/ PollSleepDone

(***************************************************************************)
(* The specifications: one per subsystem.                                  *)
(***************************************************************************)
InitBuf ==
    /\ \E cap \in 0..MaxCapacity, col \in {"log_collector", "usb_collector"} :
          BufStart(cap, col)
    /\ \E f \in ConfigFilters : CmdStartWith(0, 60, FALSE, f)
    /\ UsbIdle /\ UpdIdle /\ LockIdle /\ MuxIdle /\ PollIdle

SpecBuf == InitBuf /\ [][NextBuf]_vars

InitUsb == BufIdle /\ UsbStart /\ UpdIdle /\ CmdIdle /\ LockIdle /\ MuxIdle /\ PollIdle

SpecUsb == InitUsb /\ [][NextUsb]_vars

\* the deployed directory a cycle can find: absent, or holding any files of the kind
InitUpd ==
    /\ BufIdle /\ UsbIdle /\ CmdIdle /\ LockIdle /\ MuxIdle /\ PollIdle
    /\ \E t \in {"node", "probe"}, exists \in BOOLEAN, dir \in SUBSET FileNames :
          /\ ~exists => dir = {}
          /\ \E scr \in {""} \cup (IF t = "probe" THEN dir ELSE {}) :
                UpdStart(t, exists, dir, scr)

SpecUpd == InitUpd /\ [][NextUpd]_vars

InitCmd ==
    /\ BufIdle /\ UsbIdle /\ UpdIdle /\ LockIdle /\ MuxIdle /\ PollIdle
    /\ \E interval \in ConfigIntervals, port \in BOOLEAN :
          CmdStart(T0 - 10, interval, port)

SpecCmd == InitCmd /\ [][NextCmd]_vars

InitLock ==
    /\ \E col \in {"log_collector", "usb_collector"} : BufStart(1, col)
    /\ UsbIdle /\ UpdIdle /\ CmdIdle
    /\ LockStart
    /\ MuxIdle /\ PollIdle

SpecLock == InitLock /\ [][NextLock]_vars

InitMux ==
    BufIdle /\ UsbIdle /\ UpdIdle /\ CmdIdle /\ LockIdle /\ PollIdle /\ MuxStart

SpecMux == InitMux /\ [][NextMux]_vars

\* select! polls its branches in a random order, so a branch that is ready
\* again and again completes first at some time (strong fairness); a write
\* or a flush that is awaited returns (weak fairness). The peer, the senders
\* of commands and the end of the connection are under no obligation.
SpecMuxFair ==
    /\ SpecMux
    /\ SF_vars(MuxReadLine)
    /\ SF_vars(MuxRecvCommand)
    /\ WF_vars(\E ok \in BOOLEAN : MuxWriteAll(ok))
    /\ WF_vars(\E ok \in BOOLEAN : MuxFlush(ok))

InitPoll ==
    BufIdle /\ UsbIdle /\ UpdIdle /\ CmdIdle /\ LockIdle /\ MuxIdle /\ PollStart

SpecPoll == InitPoll /\ [][NextPoll]_vars

\* a pass over /dev and a sleep both come to an end
SpecPollFair == SpecPoll /\ WF_vars(NextPoll)

(***************************************************************************)
(* Properties of the log buffer and the upload cycle.                      *)
(***************************************************************************)

\* C1: for every capacity N, after more than N pushes into an initially empty
\* buffer (nothing drained yet) the buffer holds exactly the last N pushed
\* entries in arrival order, and the push never fails.
C1_KeepsLastN ==
    /\ (drains = 0 /\ Len(pushed) > max_size) => entries = LastN(pushed, max_size)
    /\ Len(vecPushed) > max_size => buffer = LastN(vecPushed, max_size)
    /\ ~collectorPanic

\* C1 restricted to capacities N >= 1 (what the code does guarantee).
KeepsLastNPositiveCapacity ==
    max_size >= 1 =>
        /\ (drains = 0 /\ Len(pushed) > max_size) => entries = LastN(pushed, max_size)
        /\ Len(vecPushed) > max_size => buffer = LastN(vecPushed, max_size)
        /\ ~collectorPanic

\* C2: in every reachable state, for every capacity, the buffer's length
\* never exceeds its capacity.
C2_LengthWithinCapacity == Len(entries) <= max_size /\ Len(buffer) <= max_size

\* C2 restricted to capacities N >= 1.
LengthWithinPositiveCapacity ==
    max_size >= 1 => Len(entries) <= max_size /\ Len(buffer) <= max_size

\* C3: an upload answered with success (any 2xx status) leaves the buffer
\* equal to exactly the entries A appended while it was in flight: every
\* snapshotted entry is cleared, no entry of A is. (Stated for capacities
\* N >= 1 and appends that fit in the buffer, so that neither a capacity of 0
\* nor the eviction of A's own oldest entries is what decides it.)
C3_SuccessLeavesAppends ==
    (/\ last.result = "response" /\ Is2xx(last.status)
     /\ max_size >= 1 /\ Len(last.A) <= max_size) =>
        last.after = last.A

\* What the code guarantees: after a response with status 200 the buffer is
\* what the pushes of A alone built (A, up to capacity eviction).
Status200LeavesAppends ==
    (last.result = "response" /\ last.status = 200) =>
        last.after = PushAll(<<>>, last.A, max_size)

\* C4: an upload answered with a non-success status leaves the buffer equal
\* to the snapshot S (oldest first) followed by the concurrent appends A.
\* (Stated for the cycles where S and A fit in the buffer together, so that
\* eviction is not what decides it.)
C4_FailureRequeuesInFront ==
    (/\ last.result = "response" /\ ~Is2xx(last.status)
     /\ Len(last.S) + Len(last.A) <= max_size) =>
        last.after = last.S \o last.A

\* C5: after an upload cycle that failed for any reason (transport error or
\* non-success status) every snapshotted entry is still in the buffer.
C5_UndeliveredPersist ==
    (\/ last.result = "transport"
     \/ last.result = "response" /\ ~Is2xx(last.status)) =>
        Range(last.S) \subseteq Range(last.after)

\* What the code guarantees: a non-200 response re-queues every snapshotted entry.
RequeuedAfterStatus ==
    (last.result = "response" /\ last.status # 200) =>
        Range(last.S) \subseteq Range(last.after)

\* C13: after an upload cycle that failed, the loop waits the retry
\* backoff before the next cycle: 1 s after the first failure, doubled
\* after each further consecutive failure, at most 60 s.
C13_RetryBackoff ==
    (last.ended /\ ~last.ok) => last.wait = Min(2 ^ (last.failures - 1), 60)

\* C14: every upload cycle performs the HTTP upload, also when the snapshot
\* of the buffer is empty.
C14_AlwaysUploads ==
    last.ended => last.result \in {"response", "transport"}

\* C15: a cycle whose request was answered is a success exactly when the
\* status is 2xx: then the snapshot is not pushed back and sync_telemetry
\* returns Ok; otherwise the snapshot is pushed back and it returns Err.
C15_SuccessIsAny2xx ==
    (last.ended /\ last.result = "response") =>
        /\ last.ok = Is2xx(last.status)
        /\ last.requeued = ~Is2xx(last.status)

\* what the code does: 200 is a success, every status that is not 2xx a failure
Status200IsSuccess ==
    (last.ended /\ last.result = "response"
       /\ (last.status = 200 \/ ~Is2xx(last.status))) =>
        /\ last.ok = Is2xx(last.status)
        /\ last.requeued = ~Is2xx(last.status)

\* C16: after an upload answered with success (2xx) and a body that is a
\* list of commands, the commands are dispatched one at a time in the order
\* of the response, whether or not an earlier one failed: what has been
\* dispatched followed by what is still to be dispatched is the response's
\* list, and nothing is left when the cycle has ended.
C16_DispatchInOrder ==
    (last.result = "response" /\ Is2xx(last.status) /\ last.body.parses) =>
        /\ last.dispatched \o commands = last.body.commands
        /\ last.ended => commands = <<>>

\* after a response with status 200 the commands are dispatched in order,
\* past failures
Status200DispatchesInOrder ==
    (last.result = "response" /\ last.status = 200 /\ last.body.parses) =>
        /\ last.dispatched \o commands = last.body.commands
        /\ last.ended => commands = <<>>

\* the text occurs in the line (the empty text occurs in every line)
OccursIn(f, l) ==
    f = "" \/ \E i \in 1..Len(l) : l[i] = f

\* every line is decided against the filter read for it: it is appended if
\* and only if that filter is empty or occurs in the line
DecidedByFilter ==
    decision.by # "none" =>
        decision.kept = OccursIn(decision.filter, decision.text)

\* a step that changes the filter leaves the buffers as they are
FilterChangeKeepsBuffer ==
    filter_string' # filter_string =>
        /\ entries' = entries /\ buffer' = buffer
        /\ pushed' = pushed /\ vecPushed' = vecPushed
        /\ decision' = decision

\* C30: the collector decides each line against the filter as it is at the
\* decision: the line is appended to the buffer if and only if that filter
\* is empty or a substring of the line; a later change of the filter removes
\* no buffered entry and admits no rejected line.
C30_FilterSnapshot == []DecidedByFilter /\ [][FilterChangeKeepsBuffer]_vars

\* usb_collector.rs with a capacity of at least 1, and log_collector.rs for
\* lines that start with a level tag, decide by the filter alone
TaggedLinesDecidedByFilter ==
    (\/ decision.by = "usb_collector" /\ max_size >= 1
     \/ decision.by = "log_collector" /\ is_valid_log_line(decision.text)) =>
        decision.kept = OccursIn(decision.filter, decision.text)

(***************************************************************************)
(* Properties of the update manager.                                       *)
(***************************************************************************)
\* the computed CRC32 differs from the descriptor's checksum (a checksum that
\* is no hexadecimal number differs from every CRC32)
CrcDiffers == FromStrRadix16(cyc.remoteCrc) # dataCrc

\* C6: for both update targets and every update routine, a cycle whose
\* downloaded artifact has a CRC32 that differs from the descriptor's
\* checksum installs nothing: no /BS is sent, nothing is copied to a device,
\* no file is added to the deployed directory and the launch script is not
\* rewritten.
C6_MismatchNeverInstalled ==
    (cyc.downloaded /\ CrcDiffers) =>
        /\ "/BS" \notin Range(cyc.steps)
        /\ updSink = cyc.sink0
        /\ "copy" \notin Range(cyc.steps)
        /\ deployed \subseteq cyc.dir0
        /\ script = cyc.script0

\* a node firmware cycle of the update manager ended at the verification of
\* an artifact whose CRC32 differs from a well-formed descriptor checksum
C6_Witness ==
    /\ cyc.proc = "um_node" /\ cyc.downloaded /\ cyc.outcome = "error"
    /\ FromStrRadix16(cyc.remoteCrc) >= 0 /\ CrcDiffers

SecondRunAfterInstall ==
    /\ cyc.checked
    /\ cyc.prev.proc \in Installers
    /\ cyc.remote = cyc.prev.remote /\ cyc.remoteCrc = cyc.prev.remoteCrc

\* C11: a cycle that starts from an empty deployed directory and succeeds
\* with a descriptor of version v > 0 leaves exactly the file of version v
\* in the directory; a second cycle with the same descriptor computes the
\* current version v and is a no-op.
C11_InstallThenNoOp ==
    /\ (/\ cyc.proc \in Installers /\ cyc.outcome = "done"
        /\ cyc.dir0 = {} /\ cyc.current = 0) =>
           (cyc.remote > 0 /\ deployed = {FileName(cyc.remote)})
    /\ SecondRunAfterInstall =>
           /\ cyc.current = cyc.remote
           /\ cyc.outcome = "uptodate" /\ updPc = "idle"
           /\ ~cyc.downloaded /\ cyc.steps = <<>> /\ ~cyc.rebooted
           /\ updSink = cyc.sink0
           /\ deployed = cyc.dir0 /\ deployed = {FileName(cyc.remote)}
           /\ script = cyc.script0

\* the node firmware was installed into an empty directory by the update
\* manager, and the second run with the same descriptor has been checked
C11_Witness ==
    /\ SecondRunAfterInstall
    /\ cyc.proc = "um_node" /\ cyc.prev.proc = "um_node" /\ cyc.remote > 0

\* C12: whenever the descriptor was fetched, the version check goes on with
\* the current version being the maximum version parseable from the file
\* names of the deployed directory, 0 when there is none or the directory is
\* absent.
C12_CurrentIsMaximum ==
    cyc.fetched => (cyc.checked /\ cyc.current = MaxListed(cyc.dir0))

\* node_update.rs and probe_update.rs compute the maximum
OldCurrentIsMaximum ==
    (cyc.fetched /\ cyc.proc \in {"nu", "pu"}) =>
        (cyc.checked /\ cyc.current = MaxListed(cyc.dir0))

\* the installation steps of the cycle so far, in order: bookkeeping steps
\* (download, temporary file, failed unmount attempt, reboot) left out
InstallSteps(c) ==
    SelectSeq(c.steps,
              LAMBDA x : x \notin {"download", "temp", "unmount_attempt", "reboot"})

\* the last thing a failed node firmware cycle did before its reboot
BeforeReboot(c) ==
    SelectSeq(c.steps, LAMBDA x : x # "reboot")

\* a node firmware cycle of the update manager failed while the bootloader
\* device was mounted: after the mount and before a successful unmount
FailedWhileMounted ==
    /\ cyc.proc = "um_node" /\ cyc.outcome = "error"
    /\ "mount" \in Range(cyc.steps) /\ "unmount" \notin Range(cyc.steps)

\* C21: when the install sequence fails after the bootloader device was
\* mounted (in the copy, the sync or the unmount), an unmount of the mount
\* point is attempted before the error is returned.
C21_UnmountOnFailure ==
    FailedWhileMounted =>
        /\ BeforeReboot(cyc) # <<>>
        /\ BeforeReboot(cyc)[Len(BeforeReboot(cyc))] = "unmount_attempt"

\* a failed copy is followed by an unmount attempt
UnmountAfterFailedCopy ==
    (FailedWhileMounted /\ "copy" \notin Range(cyc.steps)) =>
        BeforeReboot(cyc)[Len(BeforeReboot(cyc))] = "unmount_attempt"

\* C22: a node firmware cycle of the update manager that fails after the
\* update was decided ends with a reboot issued as its last step and with
\* the error; a cycle that ends as up to date or fails in the version check
\* issues no reboot.
C22_RebootOnInstallFailure ==
    cyc.proc = "um_node" =>
        /\ (cyc.checked /\ cyc.outcome = "error") =>
              /\ cyc.rebooted /\ updPc = "idle"
              /\ cyc.steps # <<>> /\ cyc.steps[Len(cyc.steps)] = "reboot"
        /\ (cyc.outcome = "uptodate" \/ ~cyc.checked) =>
              (~cyc.rebooted /\ "reboot" \notin Range(cyc.steps))

\* C22's case: the bootloader device did not appear after /BS was sent
C22_Witness ==
    /\ cyc.proc = "um_node" /\ cyc.outcome = "error" /\ cyc.rebooted
    /\ "/BS" \in Range(cyc.steps) /\ "device" \notin Range(cyc.steps)

SelfUpdaters == {"um_probe", "pu"}

\* C23: in the self-update path a reboot is issued only after the binary was
\* verified against the descriptor's checksum, written to the deployed
\* directory, made executable, named by the launch script, and the older
\* binaries removed; a cycle in which one of these steps fails ends with an
\* error and without a reboot.
C23_RebootOnlyAfterInstall ==
    cyc.proc \in SelfUpdaters =>
        /\ "reboot" \in Range(cyc.steps) =>
              /\ {"verify", "write", "chmod", "script", "cleanup"}
                    \subseteq Range(cyc.steps)
              /\ FromStrRadix16(cyc.remoteCrc) = dataCrc
              /\ FileName(cyc.remote) \in deployed
              /\ script = FileName(cyc.remote)
              /\ \A f \in deployed :
                    ParseVersion(f) < 0 \/ ParseVersion(f) >= cyc.remote
        /\ cyc.rebooted => "reboot" \in Range(cyc.steps)
        /\ (/\ updPc = "idle" /\ cyc.checked /\ cyc.outcome # "uptodate"
            /\ "reboot" \notin Range(cyc.steps)) =>
              (cyc.outcome = "error" /\ ~cyc.rebooted)

\* C23's case: a self-update of the update manager went through and rebooted
C23_Witness ==
    /\ cyc.proc = "um_probe" /\ cyc.rebooted /\ cyc.outcome = "done"
    /\ cyc.dir0 # {}

\* C24: after the cleanup step of an update, the only version-named file of
\* the kind in the deployed directory is the one just installed, and it is
\* the highest version that was present or installed.
C24_OnlyHighestAfterCleanup ==
    "cleanup" \in Range(cyc.steps) =>
        /\ {f \in deployed : ParseVersion(f) >= 0} = {FileName(cyc.remote)}
        /\ \A v \in ParsedVersions(cyc.dir0) : v <= cyc.remote

\* probe_update.rs removes every other binary
OldOnlyNewAfterCleanup ==
    (cyc.proc = "pu" /\ "cleanup" \in Range(cyc.steps)) =>
        deployed = {FileName(cyc.remote)}

\* the cleanup of update_manager.rs leaves no lower version
NoLowerAfterCleanup ==
    "cleanup" \in Range(cyc.steps) =>
        \A v \in ParsedVersions(deployed) : v >= cyc.remote

\* the order of the install sequence
InstallOrder ==
    <<"verify", "/BS", "device", "mount", "copy", "sync", "unmount", "settle",
      "deploy", "cleanup">>

\* C28: the node firmware install sequence happens in the order checksum
\* verification, /BS, device discovery, mount, copy, sync, unmount, settle
\* delay, move into the deployed directory, removal of lower versions, each
\* after the previous one succeeded; /BS is sent only for a verified image
\* and the image is in the deployed directory only after a successful
\* unmount.
C28_InstallOrder ==
    cyc.proc = "um_node" =>
        /\ Len(InstallSteps(cyc)) <= Len(InstallOrder)
        /\ InstallSteps(cyc) = SubSeq(InstallOrder, 1, Len(InstallSteps(cyc)))
        /\ updSink # cyc.sink0 =>
              (cyc.downloaded /\ FromStrRadix16(cyc.remoteCrc) = dataCrc)
        /\ deployed # cyc.dir0 => "unmount" \in Range(cyc.steps)
        /\ "deploy" \in Range(cyc.steps) => ~mounted

\* C28's case: a whole install sequence went through
C28_Witness ==
    /\ cyc.proc = "um_node" /\ cyc.outcome = "done"
    /\ InstallSteps(cyc) = InstallOrder
    /\ FileName(cyc.remote) \in deployed

(***************************************************************************)
(* Properties of the serial port manager.                                  *)
(***************************************************************************)
\* C8: in the serial port manager, after k >= 1 consecutive connection
\* failures (every attempt so far failed) the wait before attempt k+1 is
\* min(2^(k-1), 60) seconds.
C8_ReconnectBackoff ==
    (usbPc = "backoff" /\ openFails = attempts) =>
        sleepMs = Min(2 ^ (attempts - 1), 60) * 1000

\* C8's case: the seventh failure in a row, where the cap is reached.
C8_Witness ==
    /\ usbPc = "backoff"
    /\ openFails = attempts
    /\ attempts >= 7
    /\ sleepMs = MAX_BACKOFF_MS

\* the Connected and Disconnected messages of a message stream, in order
StatusMessages(m) ==
    SelectSeq(m, LAMBDA x : x[1] \in {"Connected", "Disconnected"})

\* C17: on the message stream Connected and Disconnected strictly alternate,
\* starting with Connected; a connection that has ended (by an I/O error or
\* by end-of-stream) has emitted its Disconnected, and no Disconnected is
\* emitted before a connection was established.
C17_StatusAlternates ==
    /\ \A i \in 1..Len(StatusMessages(msgs)) :
          StatusMessages(msgs)[i][1] =
              IF i % 2 = 1 THEN "Connected" ELSE "Disconnected"
    /\ usbPc \in {"connect", "backoff"} => Len(StatusMessages(msgs)) % 2 = 0

\* every entry into the connected state emits one Connected message
ConnectedOnEveryEntry ==
    Len(SelectSeq(msgs, LAMBDA x : x[1] = "Connected")) = connections

\* C18: the wait after the end of a connection (the last open attempt
\* succeeded) is 1 s, however many failures preceded that connection.
C18_BackoffResetOnConnect ==
    (usbPc = "backoff" /\ openFails = 0) => sleepMs = INITIAL_BACKOFF_MS

RECURSIVE IsSubseq(_, _)
\* a is b with some elements left out
IsSubseq(a, b) ==
    IF a = <<>> THEN TRUE
    ELSE IF b = <<>> THEN FALSE
    ELSE IF Head(a) = Head(b) THEN IsSubseq(Tail(a), Tail(b))
    ELSE IsSubseq(a, Tail(b))

\* each command of the sequence followed by CR-LF
CrLfTerminated(cs) == [i \in 1..Len(cs) |-> cs[i] \o "\r\n"]

\* a write is in flight: between the receipt of a command and the return
\* of its flush
WriteInFlight == usbPc \in {"writing", "flushing"}

\* the command in flight is the oldest accepted command that is neither
\* written nor waiting; the wire holds, in the order of acceptance, commands
\* followed by CR-LF; at most one write is in flight
WireInSinkOrder ==
    /\ Len(command) <= 1
    /\ WriteInFlight <=> command # <<>>
    /\ \E n \in 0..Len(usbCmds) :
          /\ SubSeq(usbCmds, n + 1, Len(usbCmds)) = command \o cmdQueue
          /\ IsSubseq(wire, CrLfTerminated(SubSeq(usbCmds, 1, n)))

\* while a write is in flight the manager takes no further command from the
\* sink, handles no inbound line and opens no connection
NoEventDuringWrite ==
    WriteInFlight =>
        /\ \E more \in {<<>>} \cup {<<c>> : c \in UsbCommands} :
              cmdQueue' = cmdQueue \o more
        /\ usbLines' = usbLines
        /\ msgs' \in {msgs, msgs \o << <<"Disconnected">> >>}
        /\ attempts' = attempts
        /\ \/ wire' = wire
           \/ /\ usbPc = "flushing"
              /\ wire' = wire \o CrLfTerminated(command)

\* C19: while connected, commands are written to the wire in the order they
\* entered the command sink, each followed by CR-LF; the write and the flush
\* of one command complete before the manager services another event, and
\* at most one write is in flight.
C19_WritesInOrder == [](WireInSinkOrder) /\ [][NoEventDuringWrite]_vars

\* C19's case: two different commands were sent, and both are on the wire
C19_Witness ==
    /\ Len(wire) = 2
    /\ wire[1] # wire[2]
    /\ Len(usbCmds) = 2

\* C20: no accepted command is dropped: every command the sink accepted is
\* on the wire, being written, or still waiting in the sink, and no more
\* than 32 are waiting.
C20_NoCommandDropped ==
    /\ Len(cmdQueue) <= CommandChannelCapacity
    /\ CrLfTerminated(usbCmds) = wire \o CrLfTerminated(command \o cmdQueue)

\* the sink holds at most its capacity
SinkWithinCapacity == Len(cmdQueue) <= CommandChannelCapacity

(***************************************************************************)
(* Properties of the upload schedule and the command dispatchers.          *)
(***************************************************************************)
\* the interval the schedule s yields at time t, with the given default
SpecifiedInterval(s, t, default) ==
    IF s.start_time # None /\ s.end_time # None /\ s.start_time <= t /\ t <= s.end_time
      THEN IF (t - s.start_time) % (s.active_period + s.inactive_period) < s.active_period
             THEN s.active_period
             ELSE s.inactive_period
      ELSE default

\* C9: every computation of the current upload interval, for a schedule
\* whose periods are not both 0, yields active_period or inactive_period by
\* the position of now in the active/inactive cycle when both bounds are set
\* and start <= now <= end, and the default interval otherwise.
C9_CurrentInterval ==
    (/\ computed.fn # "none"
     /\ computed.schedule.active_period + computed.schedule.inactive_period > 0) =>
        computed.value = SpecifiedInterval(computed.schedule, computed.now,
                                           computed.default)

\* UpdateInterval::get_current_interval of types.rs computes the specified
\* interval for every schedule whose periods are not both 0
GetCurrentIntervalAsSpecified ==
    (/\ computed.fn = "get_current_interval"
     /\ computed.schedule.active_period + computed.schedule.inactive_period > 0) =>
        computed.value = SpecifiedInterval(computed.schedule, computed.now,
                                           computed.default)

\* the last command is a set_log_level that carries its fields next to the
\* command name and gives a level (in any letter case) in exactly one of
\* `level` and `log_level`; a dispatcher that writes to the port itself has
\* a port and its write succeeds
FlatLogLevelCommand ==
    /\ lastCmd.cmd.command = "set_log_level"
    /\ ~lastCmd.cmd.nested
    /\ lastCmd.cmd.level.set # lastCmd.cmd.log_level.set
    /\ lastCmd.dispatcher = "commands" => (lastCmd.port /\ lastCmd.io)

GivenLevel ==
    IF lastCmd.cmd.log_level.set THEN lastCmd.cmd.log_level.v ELSE lastCmd.cmd.level.v

\* C10: a set_log_level command with its fields next to the command name,
\* the level given in `level` or in `log_level` in any letter case, sends
\* exactly one directive, the one of the level.
C10_SetLogLevel ==
    (FlatLogLevelCommand /\ LevelDirective(to_uppercase(GivenLevel)) # "") =>
        lastCmd.sent \in { <<LevelDirective(to_uppercase(GivenLevel))>>,
                           <<LevelDirective(to_uppercase(GivenLevel)) \o "\r\n">> }

\* command_executor.rs sends the directive of the level when the fields are
\* under "parameters"
NestedLogLevelSendsDirective ==
    (/\ lastCmd.dispatcher = "command_executor"
     /\ lastCmd.cmd.command = "set_log_level" /\ lastCmd.cmd.nested
     /\ lastCmd.cmd.level.set # lastCmd.cmd.log_level.set
     /\ LevelDirective(to_uppercase(GivenLevel)) # "") =>
        lastCmd.sent = <<LevelDirective(to_uppercase(GivenLevel))>>

\* commands.rs sends the directive of an upper-case level given in `level`
FlatUpperCaseLevelSendsDirective ==
    (/\ lastCmd.dispatcher = "commands" /\ FlatLogLevelCommand
     /\ lastCmd.cmd.level.set /\ LevelDirective(lastCmd.cmd.level.v) # "") =>
        lastCmd.sent = <<LevelDirective(lastCmd.cmd.level.v) \o "\r\n">>

\* the last command carries its fields where its dispatcher reads them:
\* under "parameters" for command_executor.rs, next to the command name for
\* commands.rs
FieldsWhereRead ==
    lastCmd.cmd.nested = (lastCmd.dispatcher = "command_executor")

\* the bound a timestamp field stands for: absent when the field is missing,
\* empty or malformed
GivenBound(f) == IF f.set /\ ParseRfc3339(f.v) # -1 THEN ParseRfc3339(f.v) ELSE None

\* a timestamp field that is given and is not RFC 3339
Malformed(f) == f.set /\ f.v # "" /\ ParseRfc3339(f.v) = -1

\* a period given as 0 or omitted takes the value of the other period
Mirrored(p, other) == IF p.v > 0 THEN p.v ELSE other.v

\* the schedule a set_update_interval command stands for
CommandedSchedule(c) ==
    [start_time |-> GivenBound(c.start_time),
     end_time |-> GivenBound(c.end_time),
     active_period |-> Mirrored(c.active_period, c.inactive_period),
     inactive_period |-> Mirrored(c.inactive_period, c.active_period)]

\* the schedule part of an UpdateInterval
ScheduleOf(u) ==
    [start_time |-> u.start_time, end_time |-> u.end_time,
     active_period |-> u.active_period, inactive_period |-> u.inactive_period]

\* the last command is a set_update_interval with at least one period > 0
SetIntervalCommand ==
    /\ lastCmd.cmd.command = "set_update_interval"
    /\ FieldsWhereRead
    /\ lastCmd.cmd.active_period.v > 0 \/ lastCmd.cmd.inactive_period.v > 0

\* the interval the sync loop sleeps when it reads it now: the stored
\* Duration with command_executor.rs, the stored schedule's current
\* interval with commands.rs and types.rs
SyncLoopInterval ==
    IF lastCmd.dispatcher = "command_executor"
      THEN upload_interval
      ELSE get_current_interval(update_interval, now)

DefaultInterval ==
    IF lastCmd.dispatcher = "command_executor"
      THEN upload_interval_seconds
      ELSE update_interval.default_interval

\* C25: after a set_update_interval command with at least one period > 0
\* and well-formed or absent bounds, the schedule in force is the commanded
\* one, a period given as 0 or omitted mirroring the other, and from then on
\* the sync loop's interval is the one the commanded schedule yields at the
\* current time.
C25_ScheduleReplaced ==
    (/\ SetIntervalCommand
     /\ ~Malformed(lastCmd.cmd.start_time) /\ ~Malformed(lastCmd.cmd.end_time)) =>
        /\ lastCmd.result = "ok"
        /\ lastCmd.dispatcher = "commands" =>
              ScheduleOf(update_interval) = CommandedSchedule(lastCmd.cmd)
        /\ SyncLoopInterval =
              SpecifiedInterval(CommandedSchedule(lastCmd.cmd), now, DefaultInterval)

\* commands.rs installs the four fields of a complete command with periods
\* > 0 as they are given
OldCompleteScheduleInstalled ==
    (/\ SetIntervalCommand /\ lastCmd.dispatcher = "commands"
     /\ GivenBound(lastCmd.cmd.start_time) # None
     /\ GivenBound(lastCmd.cmd.end_time) # None
     /\ lastCmd.cmd.active_period.set /\ lastCmd.cmd.active_period.v > 0
     /\ lastCmd.cmd.inactive_period.set /\ lastCmd.cmd.inactive_period.v > 0) =>
        /\ lastCmd.result = "ok"
        /\ ScheduleOf(update_interval) = CommandedSchedule(lastCmd.cmd)
        /\ SyncLoopInterval =
              SpecifiedInterval(CommandedSchedule(lastCmd.cmd), now, DefaultInterval)

\* C26: a set_update_interval command with at least one period > 0 and a
\* malformed start_time or end_time succeeds: it changes the interval state
\* to the one of the commanded periods, the malformed bound being absent.
C26_MalformedTimestampAccepted ==
    (/\ SetIntervalCommand
     /\ Malformed(lastCmd.cmd.start_time) \/ Malformed(lastCmd.cmd.end_time)) =>
        /\ lastCmd.result = "ok"
        /\ lastCmd.dispatcher = "commands" =>
              ScheduleOf(update_interval) = CommandedSchedule(lastCmd.cmd)
        /\ lastCmd.dispatcher = "command_executor" =>
              upload_interval = CommandedSchedule(lastCmd.cmd).inactive_period

\* command_executor.rs accepts a malformed timestamp as an absent bound
CeMalformedTimestampAccepted ==
    (/\ SetIntervalCommand /\ lastCmd.dispatcher = "command_executor"
     /\ Malformed(lastCmd.cmd.start_time) \/ Malformed(lastCmd.cmd.end_time)) =>
        /\ lastCmd.result = "ok"
        /\ upload_interval = CommandedSchedule(lastCmd.cmd).inactive_period

\* the last command is a filter command under either name, with the new
\* filter in exactly one of the fields log_filter and value
FilterCommand ==
    /\ lastCmd.cmd.command \in {"set_log_filter", "set_filter"}
    /\ FieldsWhereRead
    /\ lastCmd.cmd.log_filter.set # lastCmd.cmd.value.set

GivenFilter ==
    IF lastCmd.cmd.log_filter.set THEN lastCmd.cmd.log_filter.v ELSE lastCmd.cmd.value.v

\* the filter is the given one and the command did nothing else
FilterReplaced ==
    /\ lastCmd.result = "ok"
    /\ filter_string = GivenFilter
    /\ lastCmd.sent = <<>> /\ ~lastCmd.rebooted /\ lastCmd.spawned = <<>>
    /\ upload_interval = lastCmd.before.upload
    /\ update_interval = lastCmd.before.schedule

\* C27: under either name, set_log_filter or set_filter, and with the new
\* filter in either field, log_filter or value, the command replaces the
\* filter string by the given value and changes nothing else.
C27_FilterCommandAliases == FilterCommand => FilterReplaced

\* command_executor.rs does so under the name set_log_filter
CeSetLogFilterReplaces ==
    (/\ FilterCommand /\ lastCmd.dispatcher = "command_executor"
     /\ lastCmd.cmd.command = "set_log_filter") => FilterReplaced

\* commands.rs does so under the name set_filter with the field value
OldSetFilterReplaces ==
    (/\ FilterCommand /\ lastCmd.dispatcher = "commands"
     /\ lastCmd.cmd.command = "set_filter" /\ lastCmd.cmd.value.set) => FilterReplaced

\* C29: an update_node or update_probe command starts no update sequence:
\* no check-and-update run is started by the dispatcher, so the runs of a
\* target are only those of the update manager's loop, one after the other.
C29_UpdateCommandsStartNothing ==
    lastCmd.cmd.command \in {"update_node", "update_probe"} =>
        lastCmd.spawned = <<>>

\* command_executor.rs starts nothing
CeUpdateCommandsStartNothing ==
    (/\ lastCmd.dispatcher = "command_executor"
     /\ lastCmd.cmd.command \in {"update_node", "update_probe"}) =>
        (lastCmd.result = "ok" /\ lastCmd.spawned = <<>>)

(***************************************************************************)
(* Further properties of the upload cycle.                                 *)
(***************************************************************************)
\* the entries that a later upload will send or is sending: those in the
\* buffer and those of the snapshot in flight
StillToSend == Range(entries) \cup Range(logs)

\* C38: every log entry is in the body of at most one upload that the server
\* answers with success: once the upload of a snapshot was answered with a
\* success status (2xx), none of its entries is sent again.
C38_NoDuplicateDelivery ==
    (last.result = "response" /\ Is2xx(last.status)) =>
        Range(last.S) \cap StillToSend = {}

\* the entries of an upload answered with status 200 are never sent again
Status200NeverResent ==
    (last.result = "response" /\ last.status = 200) =>
        Range(last.S) \cap StillToSend = {}

(***************************************************************************)
(* Further properties of the command dispatchers.                          *)
(***************************************************************************)
\* the command names command_executor.rs recognizes
CeCommandNames ==
    {"set_update_interval", "set_log_level", "set_log_filter", "run_command",
     "update_node", "update_probe", "reboot_probe", "start_measurement"}

\* the last command is one the dispatcher has to reject: an unrecognized
\* name, set_log_level with an unrecognized level, start_measurement with
\* sequence 0, or set_update_interval with both periods 0
RejectedCommand ==
    \/ lastCmd.cmd.command \notin CeCommandNames
    \/ /\ lastCmd.cmd.command = "set_log_level"
       /\ LevelDirective(to_uppercase(lastCmd.cmd.level.v)) = ""
       /\ LevelDirective(to_uppercase(lastCmd.cmd.log_level.v)) = ""
    \/ /\ lastCmd.cmd.command = "start_measurement"
       /\ lastCmd.cmd.sequence.v = 0
    \/ /\ lastCmd.cmd.command = "set_update_interval"
       /\ lastCmd.cmd.active_period.v = 0
       /\ lastCmd.cmd.inactive_period.v = 0

\* the command left the filter, the schedule, the interval and the command
\* sink as they were, and neither rebooted nor started anything
LeftUnchanged ==
    /\ lastCmd.sent = <<>>
    /\ cmdQueue = lastCmd.before.queue
    /\ portOut = lastCmd.before.portOut
    /\ filter_string = lastCmd.before.filter
    /\ upload_interval = lastCmd.before.upload
    /\ update_interval = lastCmd.before.schedule
    /\ ~lastCmd.rebooted
    /\ lastCmd.spawned = <<>>

OldUnknownLeavesUnchanged ==
    (/\ lastCmd.dispatcher = "commands"
     /\ \/ lastCmd.cmd.command \notin (CeCommandNames \cup {"set_filter"})
        \/ /\ lastCmd.cmd.command = "set_log_level"
           /\ LevelDirective(lastCmd.cmd.level.v) = "")
        => LeftUnchanged

\* the interval the sync loop computed last is one of the schedule's active
\* period, inactive period and default interval
OneOfTheSchedule ==
    computed.value \in {computed.schedule.active_period,
                        computed.schedule.inactive_period,
                        computed.schedule.default_interval}

\* C36: for every schedule that set_update_interval can install, the sync
\* loop's interval computation completes without a fault and returns the
\* schedule's active period, inactive period or default interval.
C36_IntervalNeverFaults ==
    computed.fn = "get_current_interval" =>
        (computed.value # Panic /\ OneOfTheSchedule)

\* the computation is sound for every schedule whose periods are not both 0
PositiveCycleNeverFaults ==
    (/\ computed.fn = "get_current_interval"
     /\ computed.schedule.active_period + computed.schedule.inactive_period > 0) =>
        (computed.value # Panic /\ OneOfTheSchedule)

(***************************************************************************)
(* Further properties of the serial port manager.                          *)
(***************************************************************************)
\* the manager returns to opening the port
BackToConnect == usbPc # "connect" /\ usbPc' = "connect"

\* C32: after any disconnect, a clean end-of-stream included, the manager
\* waits the current backoff (at least 1 s) before it opens the port again:
\* it returns to opening the port only from a reconnect sleep of at least 1 s.
C32_WaitBeforeEveryReopen ==
    [][BackToConnect => usbPc = "backoff" /\ sleepMs >= INITIAL_BACKOFF_MS]_vars

\* a disconnect reported as Disconnected (a failed open, a read or write
\* error) is followed by a reconnect sleep of at least 1 s
ErrorDisconnectWaits ==
    [][(Len(msgs') > Len(msgs) /\ msgs'[Len(msgs')] = <<"Disconnected">>)
          => usbPc' = "backoff" /\ sleepMs' >= INITIAL_BACKOFF_MS]_vars

(***************************************************************************)
(* Properties of the select! loop.                                         *)
(***************************************************************************)
\* the connection is up
Connected == muxPc # "closed"

\* while connected, a command pending in the channel is written to the wire,
\* even when inbound lines keep arriving: from any state with a pending
\* command, the next command reaches the wire or the connection ends
CommandsNotStarved ==
    \A bit \in {0, 1} :
        (Connected /\ CommandReady /\ wireBit = bit) ~> (wireBit # bit \/ ~Connected)

\* while connected, an inbound line that is available is read and forwarded,
\* even when commands keep arriving
LinesNotStarved ==
    \A bit \in {0, 1} :
        (Connected /\ LineReady /\ lineBit = bit) ~> (lineBit # bit \/ ~Connected)

C37_InboundIntact == intact

\* without a dropped read_line future that held bytes, every line read is
\* the line the peer sent
IntactUnlessCancelled == ~cancelled => intact

(***************************************************************************)
(* Properties of the device-discovery poll.                                *)
(***************************************************************************)
\* the number of passes over /dev made so far, the one in progress included
Probes == attempt + 1

\* the poll has returned
PollDone == pollPc \in {"found", "timeout"}

\* the poll never makes more than 60 probes, 500 ms apart; it gives up with
\* the timeout error after exactly 60 probes and 59 sleeps
PollBounded ==
    /\ Probes <= 60
    /\ pollPc = "timeout" => (Probes = 60 /\ attempt * CHECK_INTERVAL_MS = 29500)

\* C35: the device-discovery poll always terminates: it returns the device
\* as soon as a probe finds it and otherwise fails with the timeout error
\* after 60 probes at 500 ms spacing; it never polls without bound.
C35_PollTerminates == []PollBounded /\ <>PollDone /\ [](PollDone => []PollDone)

\* the poll timed out after its last probe
C35_Witness == pollPc = "timeout" /\ attempt = max_attempts - 1

(***************************************************************************)
(* Properties of the locks.                                                *)
(***************************************************************************)
\* the locks of the log buffer, the filter string and the upload schedule
SharedLocks == {"log_buffer", "log_filter", "update_interval"}

\* the lock the task is waiting for at its `.await` ("none" when it is not
\* waiting for a lock)
LockAwaited(t) ==
    CASE lockPc[t] \in {"filter_read", "filter_lock", "cmd_filter_lock"} -> "log_filter"
      [] lockPc[t] \in {"buffer_write", "buffer_lock", "requeue_lock"} -> "log_buffer"
      [] lockPc[t] \in {"interval_lock", "cmd_interval_lock"} -> "update_interval"
      [] lockPc[t] \in {"serial_tx_lock", "cmd_serial_tx_lock"} -> "serial_tx"
      [] OTHER -> "none"

\* the task is at a suspension point: a lock, a serial read or write, a
\* sleep or a network request
Suspended(t) ==
    \/ LockAwaited(t) # "none"
    \/ lockPc[t] \in {"next_line", "backoff", "sleep", "send", "write_all"}

Blocked(t) == LockAwaited(t) # "none" /\ ~Free(LockAwaited(t))

\* C31: no task is at a suspension point while it holds the lock of the log
\* buffer, of the filter string or of the upload schedule; no task waits for a
\* lock while it holds another; and the collector and the sync loop are never
\* both blocked on a lock (no deadlock).
C31_NoLockAcrossSuspension ==
    /\ \A t \in Tasks : Suspended(t) => lockHeld[t] \cap SharedLocks = {}
    /\ \A t \in Tasks : LockAwaited(t) # "none" => lockHeld[t] = {}
    /\ \E t \in Tasks : ~Blocked(t)

\* the sync loop waits for the buffer while the collector holds it
C31_Witness ==
    /\ "log_buffer" \in lockHeld["collector"]
    /\ lockPc["sync"] \in {"buffer_lock", "requeue_lock"}
    /\ Blocked("sync")

(***************************************************************************)
(* Further properties of the probe self-update.                            *)
(***************************************************************************)
\* start.sh names a binary that is in the deployed directory
ScriptReferencesExisting ==
    (target = "probe" /\ script # "") => script \in deployed

\* C39: during and after a self-update cycle, whether it succeeds or fails
\* at any step, the launch script references a binary that exists in the
\* deployed directory: no binary the current script references is removed
\* before the script has been rewritten.
C39_ScriptReferencesExistingBinary == ScriptReferencesExisting

\* check_and_update_probe of update_manager.rs keeps the reference: it
\* rewrites the script before the cleanup, and the cleanup removes only
\* versions lower than the one the script now names
UmKeepsScriptReference ==
    [][(ScriptReferencesExisting /\ cyc'.proc = "um_probe")
          => ScriptReferencesExisting']_vars

\* a cycle of update_manager.rs has rewritten the script and removed the
\* binary the script named before
UmScriptRewritten ==
    /\ cyc.proc = "um_probe" /\ updPc = "um_probe_reboot"
    /\ cyc.dir0 # {} /\ cyc.dir0 \cap deployed = {}
    /\ script \in deployed

====
